---- MODULE Spec2Model ----
(***************************************************************************)
(* Model of the zenzefi_client local proxy: ProxyManager (lifecycle and    *)
(* credential state, core/proxy_manager.py), ZenzefiProxy (per-request     *)
(* forwarding, core/proxy_manager.py) and the client classification        *)
(* ZenzefiProxy._is_browser.                                               *)
(*                                                                         *)
(* The specifications share the variables:                                 *)
(*   Spec        the manager: start()/stop() on the control thread, the    *)
(*               server threads start() launches, the port and the backend *)
(*   SpecEngine  one request through handle_http/_proxy_to_backend while   *)
(*               the session token may be written by start()/stop()        *)
(*   SpecUA      _is_browser applied to bounded User-Agent strings         *)
(*   SpecCache   put/get/clear on a CacheManager (core/proxy/              *)
(*               cache_manager.py) beside a session that stop() may end    *)
(*   SpecFn      generate_key, is_cacheable, ContentRewriter.rewrite       *)
(*               (core/proxy/content_rewriter.py) and                      *)
(*               check_backend_health on drawn arguments                   *)
(*   SpecMemo    ContentRewriter.rewrite called twice on a rewriter that   *)
(*               has a cache_manager                                       *)
(*   SpecConc    several requests in ZenzefiProxy at the same time         *)
(***************************************************************************)
EXTENDS Integers, Sequences, FiniteSets, TLC

\* ------------------------------------------------------------------ bounds
\* Number of server threads (start() calls that pass the port check) explored.
MaxStarts == 2
\* Number of requests the engine accepts (caps the statistics counters).
MaxRequests == 2
\* Number of chunks a generated User-Agent string is made of.
MaxUAChunks == 3
\* Largest maxsize a CacheManager is created with.
MaxCacheSize == 2
\* Number of put and get calls explored between two clear() calls.
MaxCacheOps == 4
\* Number of chunks a generated URL path is made of.
MaxPathChunks == 2
\* Number of chunks a generated content is made of.
MaxContentChunks == 2
\* Number of attributes a Set-Cookie header of the backend carries.
MaxCookieAttrs == 2
\* Number of times rewrite is called with the same arguments.
MaxMemoCalls == 2
\* Number of requests ZenzefiProxy handles at the same time.
MaxHandlers == 2

\* --------------------------------------------------------------- constants
\* asyncio.Semaphore(50)
SemaphoreLimit == 50
\* data.get('cookie_max_age', 3600)
DefaultMaxAge == 3600

None == "None"

VARIABLES
  \* ---- ProxyManager fields
  is_running,        \* self.is_running
  current_token,     \* self.current_token
  backend_url,       \* self.backend_url
  cookie_jar,        \* self.cookie_jar: None, "empty_jar" (falsy) or "jar"
  last_error_type,   \* self.last_error_type
  loop,              \* self.loop: 0 None, -1 a loop no thread runs, i the loop of thread i
  site,              \* self.site: 0 None, i the TCPSite created by thread i
  \* ---- server threads (_run_server), the port, the host
  thr,               \* thr[i]: position of server thread i
  nThreads,          \* threads created so far; self.thread is thread nThreads
  listener,          \* 0, or the thread whose TCPSite holds port 61000
  portHolder,        \* another process on port 61000: "free", "known", "unknown"
  hardware,          \* the platform.* string generate_device_id would hash
  \* ---- the control thread calling start()/stop()
  pc,                \* position of the control thread
  inStart,           \* TRUE while stop() runs as a call from start()
  lastOp,            \* the call in progress or last returned
  \* ---- one request in ZenzefiProxy (SpecEngine)
  hpc,               \* position of the request handler
  hreq,              \* the request being handled
  hup,               \* the call sent to the backend for it
  hresp,             \* the response returned to the caller
  permits,           \* free permits of connection_semaphore
  stats,             \* ZenzefiProxy.stats
  \* ---- _is_browser on its own (SpecUA)
  ua,                \* the User-Agent string, a sequence of characters
  uaResult,          \* what _is_browser returned for it
  \* ---- one CacheManager (SpecCache)
  cache,             \* self.cache: the OrderedDict as a sequence, oldest first
  maxsize,           \* self.maxsize
  hits,              \* self.hits
  misses,            \* self.misses
  cacheOp,           \* the last call made on the cache and what it returned
  accessLog,         \* the puts and the get hits since the last clear(), in order
  \* ---- a pure function applied to drawn arguments
  fnIn,              \* the arguments
  fnOut,             \* the value returned, None before the call
  \* ---- several requests in ZenzefiProxy at once (SpecConc)
  conc,              \* conc[h]: position, request and response of handler h
  calls              \* the calls the backend has received, in order

mgrVars == <<is_running, current_token, backend_url, cookie_jar, last_error_type,
             loop, site, thr, nThreads, listener, portHolder, hardware,
             pc, inStart, lastOp>>
engVars == <<hpc, hreq, hup, hresp, permits, stats>>
uaVars  == <<ua, uaResult>>
cacheVars == <<cache, maxsize, hits, misses, cacheOp, accessLog>>
fnVars    == <<fnIn, fnOut>>
concVars  == <<conc, calls>>
libVars   == <<cacheVars, fnVars, concVars>>
vars    == <<mgrVars, engVars, uaVars, libVars>>

\* ------------------------------------------------------------ input domains
Tokens      == {"t1", "t2"}
URLs        == {"u1"}
StartTokens == Tokens \cup {"", None}
StartURLs   == URLs \cup {""}
ThreadIds   == 1..MaxStarts

\* Python truthiness of a str-or-None argument: `not x`.
Falsy(x) == x = None \/ x = ""

\* ================================================================ manager

\* generate_device_id(): the hash of the hardware string, RuntimeError when the
\* string is empty.
sha256_20(x) ==
  CASE x = "host-AMD64-Windows" -> "5f2a9c0d7be14a63c1d8"
    [] OTHER -> "e3b0c44298fc1c149afb"
generate_device_id(hw) == IF hw = "" THEN "RuntimeError" ELSE sha256_20(hw)

\* check_port_availability(61000): the bind test of is_port_in_use fails when
\* our own listener or another process holds the port.
port_available == listener = 0 /\ portHolder = "free"

\* get_process_using_port(61000): psutil names the listening process, or None
\* when it cannot (AccessDenied, no LISTEN entry).
process_info ==
  IF listener # 0 THEN "self"
  ELSE IF portHolder = "known" THEN "other"
  ELSE None

\* start(): the three early returns (lines 498-508).
StartRejects_NoRunningCheck(u, t) == Falsy(t) \/ Falsy(u)
StartRejects_NoTokenCheck(u, t) == is_running \/ Falsy(u)
StartRejects(u, t) == is_running \/ Falsy(t) \/ Falsy(u)

NewOp(name, u, t) ==
  [op |-> name, url |-> u, tok |-> t, result |-> "pending",
   n |-> 1 - lastOp.n, running |-> is_running, auth |-> "none"]

\* start(backend_url, token) from its entry to the first wait on the server
\* thread: argument checks, storing the session, the port check, the thread.
StartCall(u, t) ==
  /\ pc = "idle"
  /\ IF StartRejects(u, t)
       THEN /\ lastOp' = [NewOp("start", u, t) EXCEPT !.result = "false"]
            /\ UNCHANGED <<is_running, current_token, backend_url, cookie_jar,
                           last_error_type, loop, site, thr, nThreads, listener,
                           portHolder, hardware, pc, inStart>>
       ELSE /\ current_token' = t
            /\ backend_url' = u
            /\ IF ~port_available
                 THEN IF process_info # None
                        \* pm.kill_process_on_port: ProcessManager has no such
                        \* method, the AttributeError leaves start() (the port
                        \* handling is outside the try block).
                        THEN /\ lastOp' = [NewOp("start", u, t) EXCEPT !.result = "raised"]
                             /\ UNCHANGED <<last_error_type, loop, thr, nThreads, pc>>
                        ELSE /\ last_error_type' = "port"
                             /\ lastOp' = [NewOp("start", u, t) EXCEPT !.result = "false"]
                             /\ UNCHANGED <<loop, thr, nThreads, pc>>
                 ELSE /\ nThreads < MaxStarts
                      /\ loop' = -1
                      /\ nThreads' = nThreads + 1
                      /\ thr' = [thr EXCEPT ![nThreads + 1] = "created"]
                      /\ pc' = "start_wait"
                      /\ lastOp' = NewOp("start", u, t)
                      /\ UNCHANGED last_error_type
            /\ UNCHANGED <<is_running, cookie_jar, site, listener, portHolder,
                           hardware, inStart>>
  /\ UNCHANGED <<engVars, uaVars, libVars>>

\* The wait loop of start() sees is_running set by the server thread.
StartWaitSeen ==
  /\ pc = "start_wait"
  /\ is_running
  /\ pc' = "start_auth"
  /\ UNCHANGED <<is_running, current_token, backend_url, cookie_jar, last_error_type,
                 loop, site, thr, nThreads, listener, portHolder, hardware,
                 inStart, lastOp>>
  /\ UNCHANGED <<engVars, uaVars, libVars>>

\* The 50 polls are over and is_running is still false: start() returns False.
StartWaitTimeout ==
  /\ pc = "start_wait"
  /\ ~is_running
  /\ pc' = "idle"
  /\ lastOp' = [lastOp EXCEPT !.result = "false"]
  /\ UNCHANGED <<is_running, current_token, backend_url, cookie_jar, last_error_type,
                 loop, site, thr, nThreads, listener, portHolder, hardware, inStart>>
  /\ UNCHANGED <<engVars, uaVars, libVars>>

AuthOutcomes == {"ok_cookie", "ok_nocookie", "ok_badjson", "non200",
                 "conn", "timeout", "reqexc"}

\* _authenticate_with_backend(): last_error_type for each outcome of the POST.
AuthErrorType(o, e) ==
  CASE o = "non200" -> "token"
    [] o \in {"conn", "timeout", "reqexc"} -> "backend"
    [] o = "ok_badjson" -> e
    [] OTHER -> last_error_type

\* start() after the wait: _authenticate_with_backend(), then either return
\* True or call stop() and return False.
Authenticate(o, e) ==
  /\ pc = "start_auth"
  /\ IF Falsy(current_token) \/ Falsy(backend_url)
       THEN /\ pc' = "stop_call"
            /\ inStart' = TRUE
            /\ lastOp' = [lastOp EXCEPT !.auth = "skipped"]
            /\ UNCHANGED <<cookie_jar, last_error_type>>
       ELSE /\ cookie_jar' = CASE o \in {"ok_cookie", "ok_badjson"} -> "jar"
                               [] o = "ok_nocookie" -> "empty_jar"
                               [] OTHER -> cookie_jar
            /\ last_error_type' = AuthErrorType(o, e)
            /\ IF o \in {"ok_cookie", "ok_nocookie"}
                 THEN /\ pc' = "idle"
                      /\ lastOp' = [lastOp EXCEPT !.result = "true", !.auth = o]
                      /\ UNCHANGED inStart
                 ELSE /\ pc' = "stop_call"
                      /\ inStart' = TRUE
                      /\ lastOp' = [lastOp EXCEPT !.auth = o]
  /\ UNCHANGED <<is_running, current_token, backend_url, loop, site, thr, nThreads,
                 listener, portHolder, hardware>>
  /\ UNCHANGED <<engVars, uaVars, libVars>>

LogoutOutcomes == {"200", "non200", "reqexc", "other"}

\* _logout_from_backend(): skipped without a backend URL or a non-empty cookie
\* jar; every outcome of the DELETE is caught and changes nothing.
logout_sent == ~Falsy(backend_url) /\ cookie_jar = "jar"

\* stop() from its entry to is_running = False (lines 809-819).
StopEntry(o) ==
  /\ IF ~is_running
       THEN /\ pc' = "idle"
            /\ inStart' = FALSE
            /\ lastOp' = IF inStart THEN [lastOp EXCEPT !.result = "false"]
                         ELSE [NewOp("stop", None, None) EXCEPT !.result = "none"]
            /\ UNCHANGED is_running
       ELSE /\ o \in (IF logout_sent THEN LogoutOutcomes ELSE {"skipped"})
            /\ is_running' = FALSE
            /\ pc' = "stop_server"
            /\ lastOp' = IF inStart THEN lastOp ELSE NewOp("stop", None, None)
            /\ UNCHANGED inStart
  /\ UNCHANGED <<current_token, backend_url, cookie_jar, last_error_type, loop, site,
                 thr, nThreads, listener, portHolder, hardware>>
  /\ UNCHANGED <<engVars, uaVars, libVars>>

\* stop() called on the control thread.
StopCall(o) ==
  /\ pc = "idle"
  /\ StopEntry(o)

\* stop() called by start() after a failed authentication.
StopFromStart(o) ==
  /\ pc = "stop_call"
  /\ StopEntry(o)

\* self.loop and self.loop.is_running()
LoopRunning ==
  /\ loop >= 1
  /\ thr[loop] \in {"setup", "bound", "serving", "failed"}

\* stop(), step 2: _stop_server() on self.loop (site.stop() releases the port
\* the site of self.site holds), then loop.stop(), which ends the thread of
\* that loop.  A thread stopped between site.start() and its next statement
\* still runs is_running = True; one stopped inside _start_server leaves
\* run_until_complete with an error and _run_server sets is_running = False.
StopServer ==
  /\ pc = "stop_server"
  /\ IF LoopRunning
       THEN /\ listener' = IF site # 0 /\ listener = site THEN 0 ELSE listener
            /\ thr' = [thr EXCEPT ![loop] = "dead"]
            /\ is_running' = (thr[loop] = "bound")
       ELSE UNCHANGED <<listener, thr, is_running>>
  /\ pc' = "stop_purge"
  /\ UNCHANGED <<current_token, backend_url, cookie_jar, last_error_type, loop, site,
                 nThreads, portHolder, hardware, inStart, lastOp>>
  /\ UNCHANGED <<engVars, uaVars, libVars>>

\* stop(), steps 3-5: join the thread, clear token, backend URL and cookie jar.
StopPurge ==
  /\ pc = "stop_purge"
  /\ current_token' = None
  /\ backend_url' = None
  /\ cookie_jar' = None
  /\ pc' = "idle"
  /\ inStart' = FALSE
  /\ lastOp' = [lastOp EXCEPT !.result = IF inStart THEN "false" ELSE "none"]
  /\ UNCHANGED <<is_running, last_error_type, loop, site, thr, nThreads, listener,
                 portHolder, hardware>>
  /\ UNCHANGED <<engVars, uaVars, libVars>>

\* _run_server(), first statements: the thread makes its own loop and stores
\* it in self.loop.
ThreadBegin(i) ==
  /\ thr[i] = "created"
  /\ loop' = i
  /\ thr' = [thr EXCEPT ![i] = "setup"]
  /\ UNCHANGED <<is_running, current_token, backend_url, cookie_jar, last_error_type,
                 site, nThreads, listener, portHolder, hardware, pc, inStart, lastOp>>
  /\ UNCHANGED <<engVars, uaVars, libVars>>

\* _start_server() up to site.start().  certOk: the certificate pair loads.
\* A failure anywhere is caught: is_running = False and the loop runs on.
ServerSetup(i, certOk) ==
  /\ thr[i] = "setup"
  /\ IF ~certOk
       THEN /\ is_running' = FALSE
            /\ thr' = [thr EXCEPT ![i] = "failed"]
            /\ UNCHANGED <<site, listener>>
       ELSE /\ site' = i
            /\ IF port_available
                 THEN /\ listener' = i
                      /\ thr' = [thr EXCEPT ![i] = "bound"]
                      /\ UNCHANGED is_running
                 ELSE /\ is_running' = FALSE
                      /\ thr' = [thr EXCEPT ![i] = "failed"]
                      /\ UNCHANGED listener
  /\ UNCHANGED <<current_token, backend_url, cookie_jar, last_error_type, loop,
                 nThreads, portHolder, hardware, pc, inStart, lastOp>>
  /\ UNCHANGED <<engVars, uaVars, libVars>>

\* _start_server(), after site.start(): self.is_running = True.
ServerSetRunning(i) ==
  /\ thr[i] = "bound"
  /\ is_running' = TRUE
  /\ thr' = [thr EXCEPT ![i] = "serving"]
  /\ UNCHANGED <<current_token, backend_url, cookie_jar, last_error_type, loop, site,
                 nThreads, listener, portHolder, hardware, pc, inStart, lastOp>>
  /\ UNCHANGED <<engVars, uaVars, libVars>>

\* Another process takes or frees port 61000 (not while our listener holds it).
PortChange(p) ==
  /\ listener = 0
  /\ p # portHolder
  /\ portHolder' = p
  /\ UNCHANGED <<is_running, current_token, backend_url, cookie_jar, last_error_type,
                 loop, site, thr, nThreads, listener, hardware, pc, inStart, lastOp>>
  /\ UNCHANGED <<engVars, uaVars, libVars>>

\* ========================================================= _is_browser

\* str.lower(), character by character.
LowerChar(c) ==
  CASE c = "A" -> "a"
    [] c = "B" -> "b"
    [] c = "C" -> "c"
    [] c = "D" -> "d"
    [] c = "E" -> "e"
    [] c = "F" -> "f"
    [] c = "G" -> "g"
    [] c = "H" -> "h"
    [] c = "I" -> "i"
    [] c = "J" -> "j"
    [] c = "K" -> "k"
    [] c = "L" -> "l"
    [] c = "M" -> "m"
    [] c = "N" -> "n"
    [] c = "O" -> "o"
    [] c = "P" -> "p"
    [] c = "Q" -> "q"
    [] c = "R" -> "r"
    [] c = "S" -> "s"
    [] c = "T" -> "t"
    [] c = "U" -> "u"
    [] c = "V" -> "v"
    [] c = "W" -> "w"
    [] c = "X" -> "x"
    [] c = "Y" -> "y"
    [] c = "Z" -> "z"
    [] OTHER -> c

lower(str) == [i \in 1..Len(str) |-> LowerChar(str[i])]

\* Python `sub in str`.
Contains(str, sub) ==
  \E i \in 1..(Len(str) - Len(sub) + 1) : SubSeq(str, i, i + Len(sub) - 1) = sub

\* The application signatures of _is_browser, in the order of the list.
apps ==
  << <<"d", "t", "s">>,
     <<"m", "o", "n", "a", "c", "o">>,
     <<"m", "e", "r", "c", "e", "d", "e", "s">>,
     <<"d", "i", "a", "g", "n", "o", "s", "t", "i", "c">>,
     <<"j", "a", "v", "a">>,
     <<"p", "y", "t", "h", "o", "n">>,
     <<"c", "u", "r", "l">>,
     <<"w", "g", "e", "t">>,
     <<"h", "t", "t", "p", "i", "e">>,
     <<"p", "o", "s", "t", "m", "a", "n">>,
     <<"i", "n", "s", "o", "m", "n", "i", "a">>,
     <<"r", "e", "s", "t", "c", "l", "i", "e", "n", "t">>,
     <<"a", "p", "i">>,
     <<"b", "o", "t">>,
     <<"c", "r", "a", "w", "l", "e", "r">>,
     <<"s", "p", "i", "d", "e", "r">> >>

\* The browser signatures of _is_browser, in the order of the list.
browsers ==
  << <<"m", "o", "z", "i", "l", "l", "a">>,
     <<"c", "h", "r", "o", "m", "e">>,
     <<"s", "a", "f", "a", "r", "i">>,
     <<"f", "i", "r", "e", "f", "o", "x">>,
     <<"e", "d", "g", "e">>,
     <<"o", "p", "e", "r", "a">>,
     <<"m", "s", "i", "e">>,
     <<"t", "r", "i", "d", "e", "n", "t">>,
     <<"c", "h", "r", "o", "m", "i", "u", "m">>,
     <<"w", "e", "b", "k", "i", "t">> >>

\* `for sig in list: if sig in ua_lower: return ...` from position k on.
RECURSIVE AnySignatureIn(_, _, _)
AnySignatureIn(list, k, ua_lower) ==
  IF k > Len(list) THEN FALSE
  ELSE IF Contains(ua_lower, list[k]) THEN TRUE
  ELSE AnySignatureIn(list, k + 1, ua_lower)

\* A variant that looks for the browser signatures first.
is_browser_BrowsersFirst(user_agent) ==
  IF user_agent = <<>> THEN FALSE
  ELSE LET ua_lower == lower(user_agent) IN
       IF AnySignatureIn(browsers, 1, ua_lower) THEN TRUE
       ELSE FALSE

\* ZenzefiProxy._is_browser(user_agent): TRUE browser, FALSE application.
is_browser(user_agent) ==
  IF user_agent = <<>> THEN FALSE
  ELSE LET ua_lower == lower(user_agent) IN
       IF AnySignatureIn(apps, 1, ua_lower) THEN FALSE
       ELSE IF AnySignatureIn(browsers, 1, ua_lower) THEN TRUE
       ELSE FALSE

\* Pieces the User-Agent inputs are built from.
UA_Mozilla == <<"M", "o", "z", "i", "l", "l", "a">>
UA_CURL == <<"C", "U", "R", "L">>
UA_ap == <<"a", "p">>
UA_i == <<"i">>
UA_Edge == <<"E", "d", "g", "e">>
UA_xyz == <<"x", "y", "z">>

UAChunks == {UA_Mozilla, UA_CURL, UA_ap, UA_i, UA_Edge, UA_xyz}

RECURSIVE UAOfChunks(_)
UAOfChunks(n) ==
  IF n = 0 THEN {<<>>}
  ELSE {p \o c : p \in UAOfChunks(n - 1), c \in UAChunks}

UAInputs == UNION {UAOfChunks(k) : k \in 0..MaxUAChunks}

\* _is_browser called on the User-Agent.
Classify ==
  /\ uaResult = None
  /\ uaResult' = IF is_browser(ua) THEN "browser" ELSE "application"
  /\ UNCHANGED ua
  /\ UNCHANGED <<mgrVars, engVars, libVars>>

\* ---- values of the variables a specification does not use
NoReq  == [method |-> None, path |-> None, cookie |-> None, ua |-> <<>>,
           xtoken |-> None, xdevice |-> None, desktop_token |-> None, auth |-> None,
           upgrade |-> None]
NoUp   == [sent |-> FALSE]
NoResp == [status |-> 0]

EngIdle ==
  /\ hpc = "idle"
  /\ hreq = NoReq
  /\ hup = NoUp
  /\ hresp = NoResp
  /\ permits = SemaphoreLimit
  /\ stats = [total_requests |-> 0, total_responses |-> 0,
              active_connections |-> 0, errors |-> 0]

UAIdle ==
  /\ ua = <<>>
  /\ uaResult = None

\* ============================================================== CacheManager

\* CacheManager(maxsize: int = 100)
DefaultMaxSize == 100
\* ContentRewriter: results below 100KB are stored, contents below 10KB are
\* hashed whole, longer ones by their first 1KB
RewriteCacheLimit == 102400
FullHashLimit == 10240
HashPrefix == 1024

CacheKeys   == {"a", "b", "c"}
CacheValues == {"v1", "v2"}

\* key in self.cache
has_key(c, key) == \E i \in 1..Len(c) : c[i].key = key

\* self.cache[key]
item(c, key) == c[CHOOSE i \in 1..Len(c) : c[i].key = key].value

\* OrderedDict.move_to_end(key)
move_to_end(c, key) ==
  SelectSeq(c, LAMBDA e : e.key # key) \o <<[key |-> key, value |-> item(c, key)]>>

\* self.cache[key] = value: a stored key keeps its position, a new one is
\* appended.
set_item(c, key, value) ==
  IF has_key(c, key)
    THEN [i \in 1..Len(c) |-> IF c[i].key = key THEN [key |-> key, value |-> value]
                                                 ELSE c[i]]
    ELSE Append(c, [key |-> key, value |-> value])

\* CacheManager.get: the cache, the counters and the value returned.
get_CountsEveryCallAsHit(c, key, h, m) ==
  IF has_key(c, key)
    THEN [cache |-> move_to_end(c, key), hits |-> h + 1, misses |-> m,
          returned |-> item(c, key)]
    ELSE [cache |-> c, hits |-> h + 1, misses |-> m, returned |-> None]
get(c, key, h, m) ==
  IF has_key(c, key)
    THEN [cache |-> move_to_end(c, key), hits |-> h + 1, misses |-> m,
          returned |-> item(c, key)]
    ELSE [cache |-> c, hits |-> h, misses |-> m + 1, returned |-> None]

\* CacheManager.put: the cache and evicted_key (None when nothing is evicted).
put_NoEviction(c, key, value, max) ==
  [cache |-> set_item(IF has_key(c, key) THEN move_to_end(c, key) ELSE c, key, value),
   evicted |-> None]
put_EvictsNewest(c, key, value, max) ==
  LET c1 == IF has_key(c, key) THEN move_to_end(c, key) ELSE c
      c2 == set_item(c1, key, value)
  IN  IF Len(c2) > max
        THEN [cache |-> SubSeq(c2, 1, Len(c2) - 1), evicted |-> c2[Len(c2)].key]
        ELSE [cache |-> c2, evicted |-> None]
put_NoMoveToEnd(c, key, value, max) ==
  LET c2 == set_item(c, key, value)
  IN  IF Len(c2) > max
        THEN [cache |-> Tail(c2), evicted |-> Head(c2).key]
        ELSE [cache |-> c2, evicted |-> None]
put(c, key, value, max) ==
  LET c1 == IF has_key(c, key) THEN move_to_end(c, key) ELSE c
      c2 == set_item(c1, key, value)
  IN  IF Len(c2) > max
        THEN [cache |-> Tail(c2), evicted |-> Head(c2).key]
        ELSE [cache |-> c2, evicted |-> None]

\* CacheManager.clear: the cache and the counters.
clear_KeepsCounters(c, h, m) == [cache |-> <<>>, hits |-> h, misses |-> m]
clear(c, h, m) == [cache |-> <<>>, hits |-> 0, misses |-> 0]

\* n tells one call from the next, size_before is len(self.cache) at its entry.
NoCacheOp ==
  [op |-> "none", key |-> None, value |-> None, returned |-> None, evicted |-> None,
   size_before |-> 0, n |-> 0]

\* The calls explored since the cache was created or cleared.
CacheCalls == Len(accessLog) + misses

\* cache.get(key)
CacheGet(key) ==
  /\ CacheCalls < MaxCacheOps
  /\ LET r == get(cache, key, hits, misses)
     IN  /\ cache' = r.cache
         /\ hits' = r.hits
         /\ misses' = r.misses
         /\ cacheOp' = [op |-> "get", key |-> key, value |-> None,
                        returned |-> r.returned, evicted |-> None,
                        size_before |-> Len(cache), n |-> 1 - cacheOp.n]
         /\ accessLog' = IF has_key(cache, key)
                           THEN Append(accessLog, [op |-> "get", key |-> key])
                           ELSE accessLog
  /\ UNCHANGED maxsize
  /\ UNCHANGED <<mgrVars, engVars, uaVars, fnVars, concVars>>

\* cache.put(key, value)
CachePut(key, value) ==
  /\ CacheCalls < MaxCacheOps
  /\ LET r == put(cache, key, value, maxsize)
     IN  /\ cache' = r.cache
         /\ cacheOp' = [op |-> "put", key |-> key, value |-> value,
                        returned |-> None, evicted |-> r.evicted,
                        size_before |-> Len(cache), n |-> 1 - cacheOp.n]
  /\ accessLog' = Append(accessLog, [op |-> "put", key |-> key])
  /\ UNCHANGED <<maxsize, hits, misses>>
  /\ UNCHANGED <<mgrVars, engVars, uaVars, fnVars, concVars>>

\* cache.clear()
CacheClear ==
  /\ LET r == clear(cache, hits, misses)
     IN  /\ cache' = r.cache
         /\ hits' = r.hits
         /\ misses' = r.misses
  /\ cacheOp' = [NoCacheOp EXCEPT !.op = "clear", !.size_before = Len(cache),
                                   !.n = 1 - cacheOp.n]
  /\ accessLog' = <<>>
  /\ UNCHANGED maxsize
  /\ UNCHANGED <<mgrVars, engVars, uaVars, fnVars, concVars>>

\* CacheManager.__init__
CacheIdle ==
  /\ cache = <<>>
  /\ maxsize = DefaultMaxSize
  /\ hits = 0
  /\ misses = 0
  /\ cacheOp = NoCacheOp
  /\ accessLog = <<>>

NoFnIn  == [fn |-> "none"]
NoFnOut == [done |-> FALSE]

FnIdle ==
  /\ fnIn = NoFnIn
  /\ fnOut = NoFnOut

Handlers == 1..MaxHandlers

IdleHandler == [pc |-> "idle"]

ConcIdle ==
  /\ conc = [h \in Handlers |-> IdleHandler]
  /\ calls = <<>>

LibIdle ==
  /\ CacheIdle
  /\ FnIdle
  /\ ConcIdle


\* ------------------------------------------ generate_key and is_cacheable
\* Strings are sequences of characters.

\* hashlib.md5(...).hexdigest(): taken as free of collisions, the digest stands
\* for the string it was computed from.
md5(str) == [md5 |-> str]

\* CacheManager.generate_key
generate_key_IgnoresQuery(path, query) == md5(path)
generate_key(path, query) ==
  LET full_path == IF query # <<>> THEN path \o <<"?">> \o query ELSE path
  IN  md5(full_path)

cacheable_extensions ==
  { <<".", "j", "s">>,
    <<".", "c", "s", "s">>,
    <<".", "p", "n", "g">>,
    <<".", "j", "p", "g">>,
    <<".", "j", "p", "e", "g">>,
    <<".", "g", "i", "f">>,
    <<".", "s", "v", "g">>,
    <<".", "w", "o", "f", "f">>,
    <<".", "w", "o", "f", "f", "2">>,
    <<".", "t", "t", "f">>,
    <<".", "i", "c", "o">>,
    <<".", "w", "e", "b", "p">> }

cacheable_types ==
  { <<"i", "m", "a", "g", "e", "/">>,
    <<"f", "o", "n", "t", "/">>,
    <<"t", "e", "x", "t", "/", "c", "s", "s">>,
    <<"a", "p", "p", "l", "i", "c", "a", "t", "i", "o", "n", "/", "j", "a", "v", "a", "s", "c", "r", "i", "p", "t">> }

\* CacheManager.is_cacheable
is_cacheable(path, content_type) ==
  LET path_lower == lower(path)
  IN  \/ \E ext \in cacheable_extensions : Contains(path_lower, ext)
      \/ \E ct \in cacheable_types : Contains(lower(content_type), ct)

\* The paths drawn for is_cacheable: a first chunk, then up to MaxPathChunks - 1
\* more.
FirstPathChunks ==
  { <<"/", "a", "p", "p">>,
    <<"/", "a", "p", "i">>,
    <<"/", "d", "a", "t", "a">>,
    <<"/", "v", "1", ".", "c", "s", "s">> }

PathChunks ==
  { <<"/", "a", "p", "p">>,
    <<"/", "a", "p", "i">>,
    <<"/", "d", "a", "t", "a">>,
    <<"/", "v", "1", ".", "c", "s", "s">>,
    <<".", "j", "s">>,
    <<".", "j", "s", "o", "n">>,
    <<".", "P", "N", "G">> }

RECURSIVE PathsOfChunks(_)
PathsOfChunks(n) ==
  IF n = 1 THEN FirstPathChunks
  ELSE {p \o c : p \in PathsOfChunks(n - 1), c \in PathChunks}

CacheablePaths == UNION {PathsOfChunks(k) : k \in 1..MaxPathChunks}

ContentTypes ==
  { <<"a", "p", "p", "l", "i", "c", "a", "t", "i", "o", "n", "/", "j", "a", "v", "a", "s", "c", "r", "i", "p", "t">>,
    <<"a", "p", "p", "l", "i", "c", "a", "t", "i", "o", "n", "/", "j", "s", "o", "n">>,
    <<"i", "m", "a", "g", "e", "/", "p", "n", "g">>,
    <<"t", "e", "x", "t", "/", "h", "t", "m", "l">>,
    <<"t", "e", "x", "t", "/", "c", "s", "s", ";", " ", "c", "h", "a", "r", "s", "e", "t", "=", "u", "t", "f", "-", "8">>,
    <<"f", "o", "n", "t", "/", "w", "o", "f", "f", "2">>,
    <<"I", "m", "a", "g", "e", "/", "P", "N", "G">>,
    <<"m", "u", "l", "t", "i", "p", "a", "r", "t", "/", "r", "e", "l", "a", "t", "e", "d", ";", " ", "t", "y", "p", "e", "=", "i", "m", "a", "g", "e", "/", "p", "n", "g">> }

KeyPaths ==
  { <<"/", "a">>,
    <<"/", "a", "?", "v", "=", "1">>,
    <<"/", "b">> }

KeyQueries ==
  { <<>>,
    <<"v", "=", "1">>,
    <<"v", "=", "2">>,
    <<"v", "=", "1", "&", "w", "=", "2">> }

IsCacheableInputs ==
  [fn : {"is_cacheable"}, path : CacheablePaths, content_type : ContentTypes]

\* Two calls of generate_key, to compare their keys.
GenerateKeyInputs ==
  [fn : {"generate_key"}, path : KeyPaths, query : KeyQueries,
   path2 : KeyPaths, query2 : KeyQueries]

\* cache_manager.is_cacheable(path, content_type)
ApplyIsCacheable ==
  /\ fnIn.fn = "is_cacheable"
  /\ ~fnOut.done
  /\ fnOut' = [done |-> TRUE, value |-> is_cacheable(fnIn.path, fnIn.content_type)]
  /\ UNCHANGED fnIn
  /\ UNCHANGED <<mgrVars, engVars, uaVars, cacheVars, concVars>>

\* cache_manager.generate_key(path, query), twice
ApplyGenerateKey ==
  /\ fnIn.fn = "generate_key"
  /\ ~fnOut.done
  /\ fnOut' = [done |-> TRUE, value |-> generate_key(fnIn.path, fnIn.query),
               value2 |-> generate_key(fnIn.path2, fnIn.query2)]
  /\ UNCHANGED fnIn
  /\ UNCHANGED <<mgrVars, engVars, uaVars, cacheVars, concVars>>

\* ========================================================== ContentRewriter

\* The addresses of the constructor's documentation (lines 24-25).
upstream_url == <<"h", "t", "t", "p", "s", ":", "/", "/", "z", "e", "n", "z", "e", "f", "i", ".", "m", "e", "l", "x", "i", "o", "r", "y", ".", "r", "u">>
local_url    == <<"h", "t", "t", "p", "s", ":", "/", "/", "1", "2", "7", ".", "0", ".", "0", ".", "1", ":", "6", "1", "0", "0", "0">>

\* Python str.replace(old, new) for a non-empty old.
RECURSIVE replace(_, _, _)
replace(str, old, new) ==
  IF Len(str) < Len(old) THEN str
  ELSE IF SubSeq(str, 1, Len(old)) = old
         THEN new \o replace(SubSeq(str, Len(old) + 1, Len(str)), old, new)
         ELSE <<Head(str)>> \o replace(Tail(str), old, new)

\* self.upstream_host (line 33)
upstream_host ==
  replace(replace(upstream_url, <<"h", "t", "t", "p", "s", ":", "/", "/">>, <<>>), <<"h", "t", "t", "p", ":", "/", "/">>, <<>>)

\* local_url.replace("https://", "") (line 58)
local_host == replace(local_url, <<"h", "t", "t", "p", "s", ":", "/", "/">>, <<>>)

\* 'wss://127.0.0.1:61000' (lines 61-62)
local_wss == <<"w", "s", "s", ":", "/", "/", "1", "2", "7", ".", "0", ".", "0", ".", "1", ":", "6", "1", "0", "0", "0">>

Quotes == {"\"", "'"}

StartsWithStr(str, prefix) ==
  Len(str) >= Len(prefix) /\ SubSeq(str, 1, Len(prefix)) = prefix

\* The first position from `from` on whose character is in stop, 0 when none.
FirstIn(str, from, stop) ==
  LET at == {i \in from..Len(str) : str[i] \in stop}
  IN  IF at = {} THEN 0 ELSE CHOOSE i \in at : \A j \in at : i <= j

AttrNames == { <<"h", "r", "e", "f">>, <<"s", "r", "c">>, <<"a", "c", "t", "i", "o", "n">> }

\* _HTML_ATTR_PATTERN matched at the start of str:
\* (href|src|action)=["'](/[^"']*)["'].  len is 0 when there is no match.
match_html(str) ==
  LET names == {n \in AttrNames : StartsWithStr(str, n \o <<"=">>)}
  IN  IF names = {} THEN [len |-> 0]
      ELSE LET name == CHOOSE n \in names : TRUE
               q    == Len(name) + 2
               e    == FirstIn(str, q + 2, Quotes)
           IN  IF Len(str) >= q + 1 /\ str[q] \in Quotes /\ str[q + 1] = "/" /\ e # 0
                 THEN [len |-> e, name |-> name, path |-> SubSeq(str, q + 1, e - 1)]
                 ELSE [len |-> 0]

\* _CSS_URL_PATTERN matched at the start of str: url\(["']?(/[^)"']*)["']?\).
match_css(str) ==
  IF ~StartsWithStr(str, <<"u", "r", "l", "(">>) \/ Len(str) < 5 THEN [len |-> 0]
  ELSE LET s == IF str[5] \in Quotes THEN 6 ELSE 5
           e == FirstIn(str, s + 1, Quotes \cup {")"})
       IN  IF Len(str) < s \/ str[s] # "/" \/ e = 0 THEN [len |-> 0]
           ELSE IF str[e] = ")"
                  THEN [len |-> e, path |-> SubSeq(str, s, e - 1)]
           ELSE IF Len(str) >= e + 1 /\ str[e + 1] = ")"
                  THEN [len |-> e + 1, path |-> SubSeq(str, s, e - 1)]
           ELSE [len |-> 0]

\* ContentRewriter._rewrite_html: \1="{local_url}\2" for every match, left to
\* right.
RECURSIVE rewrite_html(_)
rewrite_html(content) ==
  IF content = <<>> THEN <<>>
  ELSE LET m == match_html(content)
       IN  IF m.len > 0
             THEN m.name \o <<"=", "\"">> \o local_url \o m.path \o <<"\"">>
                  \o rewrite_html(SubSeq(content, m.len + 1, Len(content)))
             ELSE <<Head(content)>> \o rewrite_html(Tail(content))

\* ContentRewriter._rewrite_css: url({local_url}\1) for every match.
RECURSIVE rewrite_css(_)
rewrite_css(content) ==
  IF content = <<>> THEN <<>>
  ELSE LET m == match_css(content)
       IN  IF m.len > 0
             THEN <<"u", "r", "l", "(">> \o local_url \o m.path \o <<")">>
                  \o rewrite_css(SubSeq(content, m.len + 1, Len(content)))
             ELSE <<Head(content)>> \o rewrite_css(Tail(content))

\* ContentRewriter.rewrite of a rewriter made without a cache_manager.
rewrite(content, content_type) ==
  LET c1 == replace(content, upstream_url, local_url)
      c2 == replace(c1, <<"/", "/">> \o upstream_host, <<"/", "/">> \o local_host)
      c3 == replace(c2, <<"w", "s", "s", ":", "/", "/">> \o upstream_host, local_wss)
      c4 == replace(c3, <<"w", "s", ":", "/", "/">> \o upstream_host, local_wss)
  IN  IF Contains(content_type, <<"t", "e", "x", "t", "/", "h", "t", "m", "l">>) THEN rewrite_html(c4)
      ELSE IF Contains(content_type, <<"t", "e", "x", "t", "/", "c", "s", "s">>) THEN rewrite_css(c4)
      ELSE c4

\* The contents drawn for rewrite: up to MaxContentChunks chunks.
ContentChunks ==
  { <<"h", "t", "t", "p", "s", ":", "/", "/", "z", "e", "n", "z", "e", "f", "i", ".", "m", "e", "l", "x", "i", "o", "r", "y", ".", "r", "u">>,
    <<"/", "/", "z", "e", "n", "z", "e", "f", "i", ".", "m", "e", "l", "x", "i", "o", "r", "y", ".", "r", "u", "/", "x">>,
    <<"w", "s", ":", "/", "/", "z", "e", "n", "z", "e", "f", "i", ".", "m", "e", "l", "x", "i", "o", "r", "y", ".", "r", "u">>,
    <<"h", "r", "e", "f", "=", "\"", "/", "a", "\"">>,
    <<"s", "r", "c", "=", "'", "/", "b", "'">>,
    <<"u", "r", "l", "(", "/", "c", ")">>,
    <<"u", "r", "l", "(", "\"", "/", "d", "\"", ")">>,
    <<"a", "c", "t", "i", "o", "n", "=", "\"", "/", "e", "?">>,
    <<"'">>,
    <<"h", "t", "t", "p", "s", ":", "/", "/", "1", "2", "7", ".", "0", ".", "0", ".", "1", ":", "6", "1", "0", "0", "0">>,
    <<"w", "s", "s", ":">>,
    <<"h", "t", "t", "p", ":">> }

RECURSIVE ContentsOfChunks(_)
ContentsOfChunks(n) ==
  IF n = 0 THEN {<<>>}
  ELSE {p \o c : p \in ContentsOfChunks(n - 1), c \in ContentChunks}

RewriteContentTypes ==
  { <<"t", "e", "x", "t", "/", "h", "t", "m", "l", ";", " ", "c", "h", "a", "r", "s", "e", "t", "=", "u", "t", "f", "-", "8">>,
    <<"t", "e", "x", "t", "/", "c", "s", "s">>,
    <<"a", "p", "p", "l", "i", "c", "a", "t", "i", "o", "n", "/", "j", "a", "v", "a", "s", "c", "r", "i", "p", "t">> }

RewriteInputs ==
  [fn : {"rewrite"}, content : UNION {ContentsOfChunks(k) : k \in 0..MaxContentChunks},
   content_type : RewriteContentTypes]

\* rewriter.rewrite(content, content_type), then rewrite of what it returned.
ApplyRewrite ==
  /\ fnIn.fn = "rewrite"
  /\ ~fnOut.done
  /\ LET once == rewrite(fnIn.content, fnIn.content_type)
     IN  fnOut' = [done |-> TRUE, value |-> once,
                   value2 |-> rewrite(once, fnIn.content_type)]
  /\ UNCHANGED fnIn
  /\ UNCHANGED <<mgrVars, engVars, uaVars, cacheVars, concVars>>

\* ------------------------------------ ContentRewriter with a cache_manager

\* _generate_cache_key: the whole content below 10KB, else its first 1KB and
\* its length, each followed by the content type.
generate_cache_key(content, content_type) ==
  IF Len(content) < FullHashLimit
    THEN md5(content \o content_type)
    ELSE md5(<<SubSeq(content, 1, HashPrefix), Len(content), content_type>>)

\* f"rewrite_{cache_key}"
rewrite_key(content, content_type) ==
  [rewrite |-> generate_cache_key(content, content_type)]

\* `if self.cache_manager`: CacheManager defines __len__, so a manager with no
\* entry is false.
manager_true(c) == Len(c) > 0

\* ContentRewriter.rewrite of a rewriter made with a cache_manager whose state
\* is c, h, m: the string returned, whether it came from the cache, and the
\* manager afterwards.
rewrite_cached(content, content_type, c, h, m, max) ==
  LET k == rewrite_key(content, content_type)
      g == get(c, k, h, m)
  IN  IF manager_true(c) /\ has_key(c, k)
        THEN [value |-> item(c, k).body, from_cache |-> TRUE,
              cache |-> g.cache, hits |-> g.hits, misses |-> g.misses]
        ELSE LET out  == rewrite(content, content_type)
                 c1   == IF manager_true(c) THEN g.cache ELSE c
                 h1   == IF manager_true(c) THEN g.hits ELSE h
                 m1   == IF manager_true(c) THEN g.misses ELSE m
                 kept == manager_true(c1) /\ Len(out) < RewriteCacheLimit
             IN  [value |-> out, from_cache |-> FALSE,
                  cache |-> IF kept
                              THEN put(c1, rewrite_key(out, content_type),
                                       [body |-> out, headers |-> <<>>, status |-> 200],
                                       max).cache
                              ELSE c1,
                  hits |-> h1, misses |-> m1]

\* An entry some other user of the manager has put.
StoredResponse ==
  [key |-> generate_key(<<"/", "a">>, <<>>), value |-> "v1"]

NoMemoOut == [done |-> FALSE, calls |-> 0]

\* rewriter.rewrite(content, content_type), called again and again with the
\* same arguments.
MemoRewrite ==
  /\ fnIn.fn = "rewrite_cached"
  /\ fnOut.calls < MaxMemoCalls
  /\ LET r == rewrite_cached(fnIn.content, fnIn.content_type, cache, hits, misses, maxsize)
     IN  /\ cache' = r.cache
         /\ hits' = r.hits
         /\ misses' = r.misses
         /\ fnOut' = [done |-> TRUE, calls |-> fnOut.calls + 1, value |-> r.value,
                      from_cache |-> r.from_cache, arg |-> fnIn.content,
                      first |-> IF fnOut.calls = 0 THEN r.value ELSE fnOut.first]
  /\ UNCHANGED <<fnIn, maxsize, cacheOp, accessLog>>
  /\ UNCHANGED <<mgrVars, engVars, uaVars, concVars>>

\* rewriter.rewrite(content, content_type) on the string the call before
\* returned: content that has been through the proxy once already.
MemoRewriteAgain ==
  /\ fnIn.fn = "rewrite_cached"
  /\ fnOut.done
  /\ fnOut.calls < MaxMemoCalls
  /\ LET r == rewrite_cached(fnOut.value, fnIn.content_type, cache, hits, misses, maxsize)
     IN  /\ cache' = r.cache
         /\ hits' = r.hits
         /\ misses' = r.misses
         /\ fnOut' = [done |-> TRUE, calls |-> fnOut.calls + 1, value |-> r.value,
                      from_cache |-> r.from_cache, arg |-> fnOut.value,
                      first |-> fnOut.first]
  /\ UNCHANGED <<fnIn, maxsize, cacheOp, accessLog>>
  /\ UNCHANGED <<mgrVars, engVars, uaVars, concVars>>

\* ------------------------------------------- ProxyManager.check_backend_health

\* What GET {backend_url}/health can give: a 200 whose body json() reads as an
\* object with or without a status field, as another JSON value, or not at
\* all; another HTTP status; a failed or timed-out connection; another error.
HealthAnswers ==
  { [kind |-> "200", json |-> "dict", has_status |-> TRUE, status |-> "healthy"],
    [kind |-> "200", json |-> "dict", has_status |-> TRUE, status |-> "degraded"],
    [kind |-> "200", json |-> "dict", has_status |-> TRUE, status |-> "unhealthy"],
    [kind |-> "200", json |-> "dict", has_status |-> TRUE, status |-> "ok"],
    [kind |-> "200", json |-> "dict", has_status |-> FALSE, status |-> None],
    [kind |-> "200", json |-> "list", has_status |-> FALSE, status |-> None],
    [kind |-> "200", json |-> "invalid", has_status |-> FALSE, status |-> None],
    [kind |-> "503", json |-> "none", has_status |-> FALSE, status |-> None],
    [kind |-> "ClientConnectorError", json |-> "none", has_status |-> FALSE, status |-> None],
    [kind |-> "asyncio.TimeoutError", json |-> "none", has_status |-> FALSE, status |-> None],
    [kind |-> "Exception", json |-> "none", has_status |-> FALSE, status |-> None] }

\* check_backend_health: the dict returned; raised tells an exception that
\* leaves the coroutine.
check_backend_health(url, a) ==
  IF Falsy(url)
    THEN [status |-> "unreachable", error |-> "Backend URL not configured", raised |-> FALSE]
  ELSE IF a.kind = "200"
    THEN IF a.json = "dict"
           THEN [status |-> IF a.has_status THEN a.status ELSE "unknown",
                 error |-> None, raised |-> FALSE]
           ELSE [status |-> "unreachable", error |-> "str(e)", raised |-> FALSE]
  ELSE IF a.kind = "503"
    THEN [status |-> "unreachable", error |-> "HTTP 503", raised |-> FALSE]
  ELSE IF a.kind \in {"ClientConnectorError", "asyncio.TimeoutError"}
    THEN [status |-> "unreachable", error |-> "Connection failed", raised |-> FALSE]
  ELSE [status |-> "unreachable", error |-> "str(e)", raised |-> FALSE]

HealthInputs ==
  [fn : {"check_backend_health"}, backend_url : {None, "u1"}, answer : HealthAnswers]

\* await manager.check_backend_health()
ApplyHealth ==
  /\ fnIn.fn = "check_backend_health"
  /\ ~fnOut.done
  /\ fnOut' = [done |-> TRUE, value |-> check_backend_health(fnIn.backend_url, fnIn.answer)]
  /\ UNCHANGED fnIn
  /\ UNCHANGED <<mgrVars, engVars, uaVars, cacheVars, concVars>>

\* ============================================ Set-Cookie of the backend
\* _proxy_to_backend, lines 344-403: every Set-Cookie header of the backend is
\* parsed and set again on the local response with response.set_cookie.

\* str.split(sep) for a one-character separator.
RECURSIVE split(_, _)
split(str, sep) ==
  LET at == FirstIn(str, 1, {sep})
  IN  IF at = 0 THEN <<str>>
      ELSE <<SubSeq(str, 1, at - 1)>> \o split(SubSeq(str, at + 1, Len(str)), sep)

\* str.strip() for blanks.
RECURSIVE strip(_)
strip(str) ==
  IF str # <<>> /\ str[1] = " " THEN strip(Tail(str))
  ELSE IF str # <<>> /\ str[Len(str)] = " " THEN strip(SubSeq(str, 1, Len(str) - 1))
  ELSE str

\* str.split('=', 1)[1] of a string that holds '='.
after_eq(str) == SubSeq(str, FirstIn(str, 1, {"="}) + 1, Len(str))
before_eq(str) == SubSeq(str, 1, FirstIn(str, 1, {"="}) - 1)

\* int(str) succeeds: digits with an optional sign.
Digits == {"0", "1", "2", "3", "4", "5", "6", "7", "8", "9"}
int_ok(str) ==
  LET d == IF str # <<>> /\ str[1] \in {"+", "-"} THEN Tail(str) ELSE str
  IN  d # <<>> /\ \A i \in 1..Len(d) : d[i] \in Digits

\* http.cookies._LegalChars (the backquote, which a TLA+ string cannot hold,
\* is left out; no input contains it): a key must consist of them, and a value
\* that does not is written between double quotes, with '"' and '\' escaped.
LegalChars ==
  {
   "a", "b", "c", "d", "e", "f", "g", "h", "i", "j", "k", "l", "m",
   "n", "o", "p", "q", "r", "s", "t", "u", "v", "w", "x", "y", "z",
   "A", "B", "C", "D", "E", "F", "G", "H", "I", "J", "K", "L", "M",
   "N", "O", "P", "Q", "R", "S", "T", "U", "V", "W", "X", "Y", "Z",
   "0", "1", "2", "3", "4", "5", "6", "7", "8", "9", "!", "#", "$",
   "%", "&", "'", "*", "+", "-", ".", "^", "_", "|", "~", ":" }
is_legal_key(str) == str # <<>> /\ \A i \in 1..Len(str) : str[i] \in LegalChars
RECURSIVE escaped(_)
escaped(str) ==
  IF str = <<>> THEN <<>>
  ELSE (IF str[1] \in {"\"", "\\"} THEN <<"\\", str[1]>> ELSE <<str[1]>>)
         \o escaped(Tail(str))
cookie_quote(str) ==
  IF is_legal_key(str) THEN str ELSE <<"\"">> \o escaped(str) \o <<"\"">>

\* The attribute loop of lines 367-381 from part i on; each part is stripped
\* and lowercased, and a later part overrides an earlier one.
NoAttrs ==
  [has_max_age |-> FALSE, max_age |-> <<>>, path |-> <<"/">>, httponly |-> FALSE,
   secure |-> FALSE, samesite |-> <<>>]
RECURSIVE attributes(_, _, _)
attributes(parts, i, acc) ==
  IF i > Len(parts) THEN acc
  ELSE LET part == lower(strip(parts[i]))
       IN  attributes(parts, i + 1,
             IF StartsWithStr(part, <<"m", "a", "x", "-", "a", "g", "e", "=">>)
               THEN IF int_ok(after_eq(part))
                      THEN [acc EXCEPT !.has_max_age = TRUE, !.max_age = after_eq(part)]
                      ELSE acc
             ELSE IF StartsWithStr(part, <<"p", "a", "t", "h", "=">>)
               THEN [acc EXCEPT !.path = after_eq(part)]
             ELSE IF part = <<"h", "t", "t", "p", "o", "n", "l", "y">>
               THEN [acc EXCEPT !.httponly = TRUE]
             ELSE IF part = <<"s", "e", "c", "u", "r", "e">>
               THEN [acc EXCEPT !.secure = TRUE]
             ELSE IF StartsWithStr(part, <<"s", "a", "m", "e", "s", "i", "t", "e", "=">>)
               THEN [acc EXCEPT !.samesite = after_eq(part)]
             ELSE acc)

\* The Set-Cookie the local response carries for one Set-Cookie of the backend:
\* none when the first part has no '=' (continue) or response.set_cookie
\* raises CookieError for the name (caught at line 402); else the cookie as
\* response.set_cookie writes it.
NoCookie == [issued |-> FALSE]
translate_cookie(cookie_header) ==
  LET parts == split(cookie_header, ";")
      name_value == strip(parts[1])
      a == attributes(parts, 2, NoAttrs)
  IN  IF ~Contains(name_value, <<"=">>) THEN NoCookie
      ELSE IF ~is_legal_key(before_eq(name_value)) THEN NoCookie
      ELSE [issued |-> TRUE,
            name |-> before_eq(name_value),
            value |-> cookie_quote(after_eq(name_value)),
            has_max_age |-> a.has_max_age, max_age |-> a.max_age,
            path |-> a.path, httponly |-> a.httponly,
            secure |-> FALSE,
            samesite |-> IF a.samesite # <<>> THEN a.samesite ELSE <<"L", "a", "x">>]

\* Set-Cookie headers of the backend: a first part and up to MaxCookieAttrs
\* attributes.
CookieNames == {<<"s", "i", "d">>, <<"s", " ", "d">>}
CookieValues == {<<"a", "b", "c">>, <<"e", "y", "J", ".", "a", "-", "b", "_", "c">>, <<"a", "/", "b">>}
CookieAttrs ==
  {<<";", " ", "S", "e", "c", "u", "r", "e">>,
   <<";", " ", "H", "t", "t", "p", "O", "n", "l", "y">>,
   <<";", " ", "S", "a", "m", "e", "S", "i", "t", "e", "=", "S", "t", "r", "i", "c", "t">>,
   <<";", " ", "M", "a", "x", "-", "A", "g", "e", "=", "6", "0">>,
   <<";", " ", "m", "a", "x", "-", "a", "g", "e", "=", "x">>,
   <<";", " ", "P", "a", "t", "h", "=", "/">>}
RECURSIVE AttrsOfCount(_)
AttrsOfCount(n) ==
  IF n = 0 THEN {<<>>}
  ELSE {a \o b : a \in CookieAttrs, b \in AttrsOfCount(n - 1)}
CookieAttrLists == UNION {AttrsOfCount(n) : n \in 0..MaxCookieAttrs}
SetCookieInputs ==
  {[fn |-> "translate_cookie", name |-> n, value |-> v, attrs |-> a,
    cookie_header |-> n \o <<"=">> \o v \o a] :
     n \in CookieNames, v \in CookieValues, a \in CookieAttrLists}
  \cup {[fn |-> "translate_cookie", name |-> <<>>, value |-> <<>>, attrs |-> a,
         cookie_header |-> <<"g", "a", "r", "b", "a", "g", "e">> \o a] : a \in CookieAttrLists}

ApplyTranslateCookie ==
  /\ fnIn.fn = "translate_cookie"
  /\ ~fnOut.done
  /\ fnOut' = [done |-> TRUE, value |-> translate_cookie(fnIn.cookie_header)]
  /\ UNCHANGED fnIn
  /\ UNCHANGED <<mgrVars, engVars, uaVars, cacheVars, concVars>>

\* ================================================== ZenzefiProxy, one request

RootPaths == {"/", "/api/v1/proxy", "/api/v1/proxy/"}

\* The requests drawn as inputs: method, path, the zenzefi_access_token cookie,
\* the User-Agent and an X-Access-Token header the caller may send itself.
Requests ==
  [method : {"GET", "POST"}, path : {"/", "/app.js"}, cookie : Tokens \cup {None},
   ua : {<<>>, UA_Mozilla, UA_CURL, UA_xyz}, xtoken : {None, "caller-token"},
   xdevice : {None}, desktop_token : {None}, auth : {None}, upgrade : {None}]

\* Requests that ask for a WebSocket: GET with Upgrade: websocket.
WebSocketRequests ==
  [method : {"GET"}, path : {"/ws"}, cookie : {None, "t1"},
   ua : {UA_Mozilla, UA_CURL}, xtoken : {None},
   xdevice : {None}, desktop_token : {None}, auth : {None}, upgrade : {"websocket"}]

\* needs_cookie_update (lines 166-169).
needs_cookie_update_OnlyMissing(browser_token, desktop_token) == browser_token = None
needs_cookie_update_Always(browser_token, desktop_token) == TRUE
needs_cookie_update(browser_token, desktop_token) ==
  browser_token = None \/ browser_token # desktop_token

\* The condition of the cookie bootstrap (lines 157-160); self.proxy_manager
\* is always set by _start_server.
bootstrap_applies(r) ==
  r.method = "GET" /\ r.path \in RootPaths /\ ~Falsy(current_token)

\* handle_http entry and _proxy_to_backend up to its first await: the counters,
\* then the decision between the cookie bootstrap and plain forwarding.
Accept(r) ==
  /\ hpc = "idle"
  /\ stats.total_requests < MaxRequests
  /\ stats' = [stats EXCEPT !.total_requests = @ + 1, !.active_connections = @ + 1]
  /\ IF bootstrap_applies(r) /\ needs_cookie_update(r.cookie, current_token)
       THEN /\ hpc' = "auth_call"
            /\ hreq' = [r EXCEPT !.desktop_token = current_token]
       ELSE /\ hpc' = "sem"
            /\ hreq' = r
  /\ hup' = NoUp
  /\ hresp' = NoResp
  /\ UNCHANGED permits
  /\ UNCHANGED <<mgrVars, uaVars, libVars>>

\* The answers of POST /api/v1/proxy/authenticate inside the bootstrap.
BootstrapAnswers ==
  { [status |-> "200", has_max_age |-> TRUE, cookie_max_age |-> 60],
    [status |-> "200", has_max_age |-> FALSE, cookie_max_age |-> 0],
    [status |-> "200_not_json", has_max_age |-> FALSE, cookie_max_age |-> 0],
    [status |-> "non200", has_max_age |-> FALSE, cookie_max_age |-> 0],
    [status |-> "exception", has_max_age |-> FALSE, cookie_max_age |-> 0] }

\* The 303 answer with the Set-Cookie of lines 196-208.
bootstrap_redirect(a, desktop_token) ==
  [status |-> 303, location |-> "/", answer |-> a,
   set_cookie |-> [name |-> "zenzefi_access_token", value |-> desktop_token,
                   max_age |-> IF a.has_max_age THEN a.cookie_max_age ELSE DefaultMaxAge,
                   path |-> "/", httponly |-> TRUE, secure |-> FALSE,
                   samesite |-> "Lax"]]

\* The authenticate call of the bootstrap returns: a 200 with a JSON body ends
\* the request with the redirect; another status, a body json() cannot read
\* or a failed call is logged and falls through to forwarding.
AuthReply(a) ==
  /\ hpc = "auth_call"
  /\ hreq' = [hreq EXCEPT !.auth = a.status]
  /\ IF a.status = "200"
       THEN /\ hresp' = bootstrap_redirect(a, hreq.desktop_token)
            /\ hpc' = "done"
       ELSE /\ hpc' = "sem"
            /\ UNCHANGED hresp
  /\ UNCHANGED <<hup, permits, stats>>
  /\ UNCHANGED <<mgrVars, uaVars, libVars>>

\* X-Access-Token of the upstream call (lines 238-259): the session token for
\* an application when there is one, else whatever header the caller sent.
upstream_token_Always(browser, token, sent) ==
  IF ~Falsy(token) THEN token ELSE sent
upstream_token(browser, token, sent) ==
  IF ~browser /\ ~Falsy(token) THEN token ELSE sent

\* async with self.connection_semaphore, then the headers and cookies of the
\* upstream call and session.request(...).
\* Every header but host, connection, content-length and transfer-encoding is
\* copied, Upgrade included; the router has no WebSocket handler, so the call is
\* always session.request.
Forward ==
  /\ hpc = "sem"
  /\ permits > 0
  /\ permits' = permits - 1
  /\ hup' = [sent |-> TRUE, method |-> hreq.method, path |-> hreq.path,
             xtoken |-> upstream_token(is_browser(hreq.ua), current_token, hreq.xtoken),
             xdevice |-> hreq.xdevice,
             cookie |-> hreq.cookie,
             upgrade |-> hreq.upgrade,
             kind |-> "session.request"]
  /\ hpc' = "upstream"
  /\ UNCHANGED <<hreq, hresp, stats>>
  /\ UNCHANGED <<mgrVars, uaVars, libVars>>

UpstreamOutcomes ==
  {"200", "401", "ClientConnectorError", "ServerTimeoutError",
   "asyncio.TimeoutError", "Exception"}

\* The status each branch of _proxy_to_backend gives its web.Response: the
\* backend's own status, or that of the except clause the outcome reaches
\* (lines 338-341, 405-447).  asyncio.TimeoutError, what ClientTimeout(total=90)
\* raises, is not a ServerTimeoutError and reaches `except Exception`.
response_status_401AsError(o) ==
  CASE o = "200" -> 200
    [] o = "ServerTimeoutError" -> 504
    [] OTHER -> 502
response_status(o) ==
  CASE o = "200" -> 200
    [] o = "401" -> 401
    [] o = "ServerTimeoutError" -> 504
    [] OTHER -> 502

\* The web.Response a branch builds: the backend's content with the copied
\* headers, or the text of the except clause with
\* content_type="text/plain; charset=utf-8".
handler_response(o) ==
  [status |-> response_status(o), outcome |-> o,
   body |-> CASE o \in {"200", "401"} -> "backend content"
              [] o = "ClientConnectorError" -> "Backend unavailable: details"
              [] o = "ServerTimeoutError" -> "Backend timeout: details"
              [] OTHER -> "Proxying error: details",
   content_type |-> IF o \in {"200", "401"} THEN <<>>
                    ELSE <<"t", "e", "x", "t", "/", "p", "l", "a", "i", "n", ";", " ", "c", "h", "a", "r", "s", "e", "t", "=", "u", "t", "f", "-", "8">>]

\* aiohttp's web.Response raises ValueError("charset must not be in
\* content_type argument") when the content_type argument holds a charset.
web_Response_raises(content_type) == Contains(content_type, <<"c", "h", "a", "r", "s", "e", "t">>)

\* What handle_http returns for the outcome: the response of the branch, or,
\* when building it raised inside the except clause, the 500 of handle_http's
\* own `except Exception`.
handle_http_result_NoCatch(o) ==
  LET r == handler_response(o)
  IN  IF web_Response_raises(r.content_type)
        THEN [status |-> 0, outcome |-> o, body |-> "ValueError", content_type |-> <<>>]
        ELSE r
handle_http_result(o) ==
  LET r == handler_response(o)
  IN  IF web_Response_raises(r.content_type)
        THEN [status |-> 500, outcome |-> o,
              body |-> "Proxy error: charset must not be in content_type argument",
              content_type |-> <<>>]
        ELSE r

\* The counters after the outcome: the success path counts a response, an
\* except clause counts an error, and so does handle_http's when it runs too.
stats_after(o, st) ==
  IF o \in {"200", "401"}
    THEN [st EXCEPT !.total_responses = @ + 1, !.active_connections = @ - 1]
  ELSE IF web_Response_raises(handler_response(o).content_type)
    THEN [st EXCEPT !.errors = @ + 2, !.active_connections = @ - 2]
  ELSE [st EXCEPT !.errors = @ + 1, !.active_connections = @ - 1]

\* The upstream call ends: the response is built or the error handler runs,
\* and the semaphore is released.
UpstreamReply(o) ==
  /\ hpc = "upstream"
  /\ hresp' = handle_http_result(o)
  /\ stats' = stats_after(o, stats)
  /\ permits' = permits + 1
  /\ hpc' = "done"
  /\ UNCHANGED <<hreq, hup>>
  /\ UNCHANGED <<mgrVars, uaVars, libVars>>

\* The handler has returned its response.
Deliver ==
  /\ hpc = "done"
  /\ hpc' = "idle"
  /\ hreq' = NoReq
  /\ hup' = NoUp
  /\ hresp' = NoResp
  /\ UNCHANGED <<permits, stats>>
  /\ UNCHANGED <<mgrVars, uaVars, libVars>>

\* start() stores a token (line 511) or stop() clears it (line 835) while the
\* engine is serving.
SessionWrite(t) ==
  /\ t # current_token
  /\ current_token' = t
  /\ UNCHANGED <<is_running, backend_url, cookie_jar, last_error_type, loop, site,
                 thr, nThreads, listener, portHolder, hardware, pc, inStart, lastOp>>
  /\ UNCHANGED <<engVars, uaVars, libVars>>

\* ======================================== ZenzefiProxy, requests side by side
\* handle_http runs as one coroutine per request on the server's loop; the
\* coroutines interleave at every await.

\* A path or query string as the sequence of its characters.
Chars(str) ==
  CASE str = "/" -> <<"/">>
    [] str = "/app.js" -> <<"/", "a", "p", "p", ".", "j", "s">>
    [] str = "v=1" -> <<"v", "=", "1">>
    [] OTHER -> <<>>

ConcRequests ==
  { [method |-> "GET",  path |-> "/app.js", query |-> ""],
    [method |-> "GET",  path |-> "/app.js", query |-> "v=1"],
    [method |-> "GET",  path |-> "/",       query |-> ""],
    [method |-> "POST", path |-> "/app.js", query |-> ""] }

\* The key a CacheManager gives the request.
request_key(r) == generate_key(Chars(r.path), Chars(r.query))

ConcBootstrapAnswers == {a \in BootstrapAnswers : a.status \in {"200", "non200"}}
ConcUpstreamOutcomes == {"200", "ClientConnectorError"}

\* The permits held by handlers beside the ones followed here: none, or all
\* but one (the followed handlers hold at most MaxHandlers permits).
busy_elsewhere ==
  IF permits + MaxHandlers < SemaphoreLimit THEN SemaphoreLimit - 1 ELSE 0

\* handle_http entry and _proxy_to_backend up to its first await; the requests
\* carry no zenzefi_access_token cookie.
ConcAccept(h, r) ==
  /\ conc[h].pc = "idle"
  /\ stats.total_requests < busy_elsewhere + MaxRequests
  /\ stats' = [stats EXCEPT !.total_requests = @ + 1, !.active_connections = @ + 1]
  /\ conc' = [conc EXCEPT ![h] =
       [pc |-> IF bootstrap_applies(r) /\ needs_cookie_update(None, current_token)
                 THEN "auth_call" ELSE "sem",
        req |-> r, call |-> 0, resp |-> NoResp]]
  /\ UNCHANGED <<hpc, hreq, hup, hresp, permits, calls>>
  /\ UNCHANGED <<mgrVars, uaVars, cacheVars, fnVars>>

\* The authenticate call of the cookie bootstrap returns.
ConcAuthReply(h, a) ==
  /\ conc[h].pc = "auth_call"
  /\ conc' = [conc EXCEPT ![h] =
       IF a.status = "200"
         THEN [@ EXCEPT !.pc = "done", !.resp = bootstrap_redirect(a, current_token)]
         ELSE [@ EXCEPT !.pc = "sem"]]
  /\ UNCHANGED <<hpc, hreq, hup, hresp, permits, stats, calls>>
  /\ UNCHANGED <<mgrVars, uaVars, cacheVars, fnVars>>

\* The call a handler sends to the backend (lines 224-291).
backend_call(r) ==
  [method |-> r.method, path |-> r.path, query |-> r.query,
   xtoken |-> upstream_token(FALSE, current_token, None)]

\* The semaphore, then session.request(...): one call per request.
ConcForward_JoinsInFlight(h) ==
  /\ conc[h].pc = "sem"
  /\ permits > 0
  /\ permits' = permits - 1
  /\ LET in_flight == {g \in Handlers \ {h} : /\ conc[g].pc = "upstream"
                                                /\ conc[g].req = conc[h].req}
     IN  IF conc[h].req.method = "GET" /\ in_flight # {}
           THEN /\ conc' = [conc EXCEPT ![h] = [@ EXCEPT !.pc = "upstream",
                             !.call = conc[CHOOSE g \in in_flight : TRUE].call]]
                /\ UNCHANGED calls
           ELSE /\ calls' = Append(calls, backend_call(conc[h].req))
                /\ conc' = [conc EXCEPT ![h] = [@ EXCEPT !.pc = "upstream",
                                                         !.call = Len(calls) + 1]]
  /\ UNCHANGED <<cache, maxsize, hits, misses, cacheOp, accessLog>>
  /\ UNCHANGED <<hpc, hreq, hup, hresp, stats>>
  /\ UNCHANGED <<mgrVars, uaVars, fnVars>>
ConcForward_CacheFirst(h) ==
  /\ conc[h].pc = "sem"
  /\ permits > 0
  /\ IF conc[h].req.method = "GET" /\ has_key(cache, request_key(conc[h].req))
       THEN /\ LET r == get(cache, request_key(conc[h].req), hits, misses)
               IN  /\ cache' = r.cache
                   /\ hits' = r.hits
                   /\ misses' = r.misses
                   /\ conc' = [conc EXCEPT ![h] = [@ EXCEPT !.pc = "done",
                                 !.resp = [status |-> 200, outcome |-> r.returned]]]
            /\ UNCHANGED <<calls, permits, maxsize, cacheOp, accessLog>>
       ELSE /\ permits' = permits - 1
            /\ calls' = Append(calls, backend_call(conc[h].req))
            /\ conc' = [conc EXCEPT ![h] = [@ EXCEPT !.pc = "upstream",
                                                     !.call = Len(calls) + 1]]
            /\ UNCHANGED <<cache, maxsize, hits, misses, cacheOp, accessLog>>
  /\ UNCHANGED <<hpc, hreq, hup, hresp, stats>>
  /\ UNCHANGED <<mgrVars, uaVars, fnVars>>
ConcForward(h) ==
  /\ conc[h].pc = "sem"
  /\ permits > 0
  /\ permits' = permits - 1
  /\ calls' = Append(calls, backend_call(conc[h].req))
  /\ conc' = [conc EXCEPT ![h] = [@ EXCEPT !.pc = "upstream", !.call = Len(calls) + 1]]
  /\ UNCHANGED <<cache, maxsize, hits, misses, cacheOp, accessLog>>
  /\ UNCHANGED <<hpc, hreq, hup, hresp, stats>>
  /\ UNCHANGED <<mgrVars, uaVars, fnVars>>

\* The backend's answer to the handler's own call arrives, or the call fails.
ConcUpstreamReply(h, o) ==
  /\ conc[h].pc = "upstream"
  /\ conc' = [conc EXCEPT ![h] = [@ EXCEPT !.pc = "done",
                !.resp = [status |-> handle_http_result(o).status, outcome |-> o,
                          call |-> conc[h].call]]]
  /\ stats' = stats_after(o, stats)
  /\ permits' = permits + 1
  /\ UNCHANGED <<hpc, hreq, hup, hresp, calls>>
  /\ UNCHANGED <<mgrVars, uaVars, cacheVars, fnVars>>

\* The handler has returned its response.
ConcDeliver(h) ==
  /\ conc[h].pc = "done"
  /\ conc' = [conc EXCEPT ![h] = IdleHandler]
  /\ UNCHANGED <<hpc, hreq, hup, hresp, permits, stats, calls>>
  /\ UNCHANGED <<mgrVars, uaVars, cacheVars, fnVars>>

\* ProxyManager.__init__
MgrInit ==
  /\ is_running = FALSE
  /\ current_token = None
  /\ backend_url = None
  /\ cookie_jar = None
  /\ last_error_type = None
  /\ loop = 0
  /\ site = 0
  /\ thr = [i \in ThreadIds |-> "none"]
  /\ nThreads = 0
  /\ listener = 0
  /\ pc = "idle"
  /\ inStart = FALSE
  /\ lastOp = [op |-> "none", url |-> None, tok |-> None, result |-> "none",
               n |-> 0, running |-> FALSE, auth |-> "none"]

Init ==
  /\ MgrInit
  /\ portHolder \in {"free", "known", "unknown"}
  /\ hardware \in {"", "host-AMD64-Windows"}
  /\ EngIdle
  /\ UAIdle
  /\ LibIdle

Next ==
  \/ \E u \in StartURLs, t \in StartTokens : StartCall(u, t)
  \/ StartWaitSeen
  \/ StartWaitTimeout
  \/ \E o \in AuthOutcomes, e \in {"backend", "unknown"} : Authenticate(o, e)
  \/ \E o \in LogoutOutcomes \cup {"skipped"} : StopCall(o)
  \/ \E o \in LogoutOutcomes \cup {"skipped"} : StopFromStart(o)
  \/ StopServer
  \/ StopPurge
  \/ \E i \in ThreadIds : ThreadBegin(i)
  \/ \E i \in ThreadIds, certOk \in BOOLEAN : ServerSetup(i, certOk)
  \/ \E i \in ThreadIds : ServerSetRunning(i)
  \/ \E p \in {"free", "known", "unknown"} : PortChange(p)

Spec == Init /\ [][Next]_vars

\* ---- SpecEngine: a session that start() has brought up, one request at a time
InitEngine ==
  /\ is_running = TRUE
  /\ current_token \in Tokens
  /\ backend_url = "u1"
  /\ cookie_jar = "jar"
  /\ last_error_type = None
  /\ loop = 1
  /\ site = 1
  /\ thr = [i \in ThreadIds |-> IF i = 1 THEN "serving" ELSE "none"]
  /\ nThreads = 1
  /\ listener = 1
  /\ portHolder = "free"
  /\ hardware = "host-AMD64-Windows"
  /\ pc = "idle"
  /\ inStart = FALSE
  /\ lastOp = [op |-> "start", url |-> "u1", tok |-> current_token, result |-> "true",
               n |-> 1, running |-> FALSE, auth |-> "ok_cookie"]
  /\ EngIdle
  /\ UAIdle
  /\ LibIdle

NextEngine ==
  \/ \E r \in Requests \cup WebSocketRequests : Accept(r)
  \/ \E a \in BootstrapAnswers : AuthReply(a)
  \/ Forward
  \/ \E o \in UpstreamOutcomes : UpstreamReply(o)
  \/ Deliver
  \/ \E t \in Tokens \cup {None} : SessionWrite(t)

SpecEngine == InitEngine /\ [][NextEngine]_vars

\* ---- SpecUA: _is_browser on every generated User-Agent
InitUA ==
  /\ MgrInit
  /\ portHolder = "free"
  /\ hardware = "host-AMD64-Windows"
  /\ EngIdle
  /\ ua \in UAInputs
  /\ uaResult = None
  /\ LibIdle

NextUA == Classify

SpecUA == InitUA /\ [][NextUA]_vars

\* ---- SpecCache: put, get and clear on one CacheManager beside a session that
\* stop() may end
RunningSession ==
  /\ is_running = TRUE
  /\ current_token = "t1"
  /\ backend_url = "u1"
  /\ cookie_jar = "jar"
  /\ last_error_type = None
  /\ loop = 1
  /\ site = 1
  /\ thr = [i \in ThreadIds |-> IF i = 1 THEN "serving" ELSE "none"]
  /\ nThreads = 1
  /\ listener = 1
  /\ portHolder = "free"
  /\ hardware = "host-AMD64-Windows"
  /\ pc = "idle"
  /\ inStart = FALSE
  /\ lastOp = [op |-> "start", url |-> "u1", tok |-> "t1", result |-> "true",
               n |-> 1, running |-> FALSE, auth |-> "ok_cookie"]

InitCache ==
  /\ RunningSession
  /\ EngIdle
  /\ UAIdle
  /\ cache = <<>>
  /\ maxsize \in 1..MaxCacheSize
  /\ hits = 0
  /\ misses = 0
  /\ cacheOp = NoCacheOp
  /\ accessLog = <<>>
  /\ FnIdle
  /\ ConcIdle

NextCache ==
  \/ \E key \in CacheKeys : CacheGet(key)
  \/ \E key \in CacheKeys, value \in CacheValues : CachePut(key, value)
  \/ CacheClear
  \/ \E o \in LogoutOutcomes : StopCall(o)
  \/ StopServer
  \/ StopPurge

SpecCache == InitCache /\ [][NextCache]_vars

\* ---- SpecFn: the pure functions of CacheManager and ContentRewriter, each
\* applied to drawn arguments
InitFn ==
  /\ MgrInit
  /\ portHolder = "free"
  /\ hardware = "host-AMD64-Windows"
  /\ EngIdle
  /\ UAIdle
  /\ CacheIdle
  /\ fnIn \in IsCacheableInputs \cup GenerateKeyInputs \cup RewriteInputs
                \cup HealthInputs \cup SetCookieInputs
  /\ fnOut = NoFnOut
  /\ ConcIdle

NextFn ==
  \/ ApplyIsCacheable
  \/ ApplyGenerateKey
  \/ ApplyRewrite
  \/ ApplyHealth
  \/ ApplyTranslateCookie

SpecFn == InitFn /\ [][NextFn]_vars

\* ---- SpecMemo: a ContentRewriter with a cache_manager, which is empty or holds
\* one entry of another user
InitMemo ==
  /\ MgrInit
  /\ portHolder = "free"
  /\ hardware = "host-AMD64-Windows"
  /\ EngIdle
  /\ UAIdle
  /\ cache \in {<<>>, <<StoredResponse>>}
  /\ maxsize = DefaultMaxSize
  /\ hits = 0
  /\ misses = 0
  /\ cacheOp = NoCacheOp
  /\ accessLog = <<>>
  /\ fnIn \in [fn : {"rewrite_cached"},
                content : UNION {ContentsOfChunks(k) : k \in 0..MaxContentChunks},
                content_type : RewriteContentTypes]
  /\ fnOut = NoMemoOut
  /\ ConcIdle

NextMemo ==
  \/ MemoRewrite
  \/ MemoRewriteAgain

SpecMemo == InitMemo /\ [][NextMemo]_vars

\* ---- SpecConc: a running session serving several requests at once, beside a
\* CacheManager that is empty or holds an entry under the key of GET /app.js
ConcStoredResponse ==
  [key |-> generate_key(Chars("/app.js"), Chars("")), value |-> "v1"]

InitConc ==
  /\ RunningSession
  /\ hpc = "idle"
  /\ hreq = NoReq
  /\ hup = NoUp
  /\ hresp = NoResp
  \* no other call is in flight, or handlers beside the ones followed here hold
  \* all permits of the semaphore but one
  /\ permits \in {SemaphoreLimit, 1}
  /\ stats = [total_requests |-> SemaphoreLimit - permits, total_responses |-> 0,
              errors |-> 0, active_connections |-> SemaphoreLimit - permits]
  /\ UAIdle
  /\ cache \in {<<>>, <<ConcStoredResponse>>}
  /\ maxsize = DefaultMaxSize
  /\ hits = 0
  /\ misses = 0
  /\ cacheOp = NoCacheOp
  /\ accessLog = <<>>
  /\ FnIdle
  /\ ConcIdle

NextConc ==
  \/ \E h \in Handlers, r \in ConcRequests : ConcAccept(h, r)
  \/ \E h \in Handlers, a \in ConcBootstrapAnswers : ConcAuthReply(h, a)
  \/ \E h \in Handlers : ConcForward(h)
  \/ \E h \in Handlers, o \in ConcUpstreamOutcomes : ConcUpstreamReply(h, o)
  \/ \E h \in Handlers : ConcDeliver(h)

SpecConc == InitConc /\ [][NextConc]_vars

\* ================================================= claims on the manager

\* The manager state start() and stop() own.
sessionState == <<is_running, current_token, backend_url, cookie_jar, last_error_type,
                  loop, site, thr, nThreads, listener, pc>>

\* A step in which the control thread enters start() / stop().
StartCalled == lastOp'.n # lastOp.n /\ lastOp'.op = "start"

\* A step in which start() returns False after having passed its argument checks.
StartFailedReturn ==
  /\ lastOp.op = "start" /\ lastOp.result = "pending"
  /\ lastOp'.op = "start" /\ lastOp'.result = "false"

\* C1: after any call to stop() has returned, current_token, backend_url and
\* cookie_jar are all None, whatever the logout call did.
C1_StopPurgesCredentials ==
  (pc = "idle" /\ lastOp.op = "stop" /\ lastOp.result = "none")
    => (current_token = None /\ backend_url = None /\ cookie_jar = None)

\* C2: when the backend answers the authenticate call of start() with a
\* rejection, start() returns False with the listener stopped, is_running
\* false and last_error_type = 'token'.
C2_RejectedTokenStopsProxy ==
  [][(StartFailedReturn /\ lastOp.auth = "non200")
       => (~is_running' /\ listener' = 0 /\ last_error_type' = "token")]_vars

\* C3: start() called while is_running returns False and leaves token, backend
\* URL, cookie jar, listener, threads and is_running as they were.
C3_StartWhileRunningChangesNothing ==
  [][(StartCalled /\ is_running)
       => (lastOp'.result = "false" /\ UNCHANGED sessionState)]_vars

C3_Witness ==
  /\ pc = "idle" /\ is_running /\ listener # 0
  /\ lastOp.op = "start" /\ lastOp.running /\ lastOp.result = "false"
  /\ lastOp.tok \in Tokens /\ lastOp.url \in URLs
  /\ current_token \in Tokens /\ current_token # lastOp.tok

\* C4: start() with an empty token or an empty backend URL returns False,
\* binds no listener, starts no thread and stores nothing: a stopped manager
\* stays stopped.
C4_EmptyArgsRejected ==
  [][(StartCalled /\ (Falsy(lastOp'.tok) \/ Falsy(lastOp'.url)))
       => (lastOp'.result = "false" /\ UNCHANGED sessionState)]_vars

C4_Witness ==
  /\ pc = "idle" /\ ~is_running /\ listener = 0 /\ nThreads = 0
  /\ lastOp.op = "start" /\ lastOp.result = "false" /\ ~lastOp.running
  /\ lastOp.tok = "" /\ lastOp.url \in URLs
  /\ current_token = None /\ backend_url = None

\* The lifecycle state of section 4.4 read off the program state.
Phase ==
  CASE pc = "start_wait" -> "Starting"
    [] pc = "start_auth" -> "Authenticating"
    [] pc \in {"stop_call", "stop_server", "stop_purge"} ->
         IF inStart THEN "StartFailed" ELSE "Stopping"
    [] OTHER -> IF is_running THEN "Running" ELSE "Stopped"

\* Starting -> Stopped stands for Starting -> StartFailed -> Stopped, which
\* start() takes within one return.
LifecycleSteps ==
  { <<"Stopped", "Starting">>, <<"Starting", "Authenticating">>,
    <<"Authenticating", "Running">>, <<"Running", "Stopping">>,
    <<"Stopping", "Stopped">>, <<"Starting", "StartFailed">>,
    <<"Authenticating", "StartFailed">>, <<"StartFailed", "Stopped">>,
    <<"Starting", "Stopped">> }

\* C5: the lifecycle takes only the transitions of the state machine, every
\* failed start ends with is_running false and no listener bound, and Running
\* is entered only from Authenticating.
C5_Lifecycle ==
  [][/\ (Phase' # Phase => <<Phase, Phase'>> \in LifecycleSteps)
     /\ (StartFailedReturn => (~is_running' /\ listener' = 0))]_vars

\* C6: a listener is bound (so a request can be proxied) only when the device
\* identifier could be generated.
C6_NoListenerWithoutDeviceId ==
  listener # 0 => generate_device_id(hardware) # "RuntimeError"

\* ================================================== claims on the engine

\* The step in which the engine sends a request to the backend.
Forwarded == hpc = "sem" /\ hpc' = "upstream"

\* C7: every application request the engine sends to the backend carries
\* X-Access-Token equal to the session token and X-Device-Id equal to the
\* device identifier of the session.
C7_ApplicationCredentials ==
  [][(Forwarded /\ ~is_browser(hreq.ua))
       => /\ ~Falsy(current_token)
          /\ hup'.xtoken = current_token
          /\ hup'.xdevice = generate_device_id(hardware)]_vars

\* C8: for a browser request the credentials sent upstream are the caller's
\* own: no access-token header is injected, the cookie is forwarded as sent.
C8_BrowserNoInjection ==
  [][(Forwarded /\ is_browser(hreq.ua))
       => /\ hup'.xtoken = hreq.xtoken
          /\ hup'.xdevice = hreq.xdevice
          /\ hup'.cookie = hreq.cookie]_vars

C8_Witness ==
  /\ hpc = "upstream" /\ hup.sent
  /\ is_browser(hreq.ua)
  /\ current_token \in Tokens
  /\ hreq.cookie = current_token
  /\ hup.xtoken = None

\* C10: a browser GET to a root path while a token is set: with no cookie or
\* a stale one the authenticate call is made, and its 200 answer ends the
\* request with a redirect whose Set-Cookie carries the session token read for
\* the request (HttpOnly, not Secure, SameSite=Lax, Path=/, the answer's
\* max-age) and nothing is sent upstream; with the cookie equal to the token
\* no authenticate call is made and the request goes on to be forwarded.
C10_CookieBootstrap ==
  [][/\ (hpc = "idle" /\ hpc' # "idle" /\ is_browser(hreq'.ua)
           /\ hreq'.method = "GET" /\ hreq'.path \in RootPaths
           /\ current_token \in Tokens)
          => IF hreq'.cookie = current_token
               THEN hpc' = "sem"
               ELSE hpc' = "auth_call" /\ hreq'.desktop_token = current_token
     /\ (hpc = "auth_call" /\ hpc' # "auth_call" /\ is_browser(hreq.ua))
          => IF hreq'.auth = "200"
               THEN
                /\ hpc' = "done"
                /\ hresp'.status = 303
                /\ hresp'.set_cookie.name = "zenzefi_access_token"
                /\ hresp'.set_cookie.value = hreq.desktop_token
                /\ hresp'.set_cookie.httponly
                /\ ~hresp'.set_cookie.secure
                /\ hresp'.set_cookie.samesite = "Lax"
                /\ hresp'.set_cookie.path = "/"
                /\ (hresp'.answer.has_max_age
                      => hresp'.set_cookie.max_age = hresp'.answer.cookie_max_age)
                /\ hup' = NoUp
               ELSE hpc' = "sem" /\ hresp' = NoResp
     /\ (hpc = "sem" /\ hpc' # "sem") => (hpc' = "upstream" /\ hup'.sent)]_vars

C10_Witness ==
  /\ hpc = "done" /\ hresp.status = 303
  /\ is_browser(hreq.ua)
  /\ hreq.cookie \in Tokens /\ hreq.cookie # hreq.desktop_token
  /\ hresp.set_cookie.value = current_token
  /\ hresp.set_cookie.max_age = 60
  /\ hup = NoUp

\* ================================================== claims on _is_browser

\* Some substring of the User-Agent equals the signature up to letter case.
HasSignature(str, sig) ==
  \E i \in 1..Len(str) :
    /\ i + Len(sig) - 1 <= Len(str)
    /\ \A j \in 1..Len(sig) : LowerChar(str[i + j - 1]) = sig[j]

HasAnySignature(str, list) == \E k \in DOMAIN list : HasSignature(str, list[k])

\* C9: the classification is decided by the User-Agent alone: empty ->
\* application; any application signature, in any letter case -> application,
\* also next to a browser signature; else a browser signature -> browser;
\* else application.
C9_Classification ==
  uaResult # None =>
    uaResult = IF ua = <<>> THEN "application"
               ELSE IF HasAnySignature(ua, apps) THEN "application"
               ELSE IF HasAnySignature(ua, browsers) THEN "browser"
               ELSE "application"

C9_Witness ==
  /\ uaResult = "application"
  /\ ua = UA_Mozilla \o UA_CURL

\* =============================================== claims on the CacheManager

Keys(c) == {c[i].key : i \in 1..Len(c)}
Entries(c) == {c[i] : i \in 1..Len(c)}
Others(c, key) == SelectSeq(c, LAMBDA e : e.key # key)

\* A call on the cache has just returned.
CacheStep == cacheOp'.n # cacheOp.n

\* Position in the log of the last put or get hit of a key, 0 when none.
LastAccess(key, log) ==
  LET at == {i \in 1..Len(log) : log[i].key = key}
  IN  IF at = {} THEN 0 ELSE CHOOSE i \in at : \A j \in at : j <= i

\* C13: after every put, get and clear the cache holds at most maxsize
\* entries, and a put of a new key into a full cache removes exactly one of
\* the entries stored before it.
C13_SizeBound ==
  [][CacheStep =>
       /\ Len(cache') <= maxsize'
       /\ Cardinality(Keys(cache')) = Len(cache')
       /\ (cacheOp'.op = "put" /\ cacheOp'.key \notin Keys(cache)
              /\ Len(cache) = maxsize)
            => /\ Cardinality(Keys(cache) \ Keys(cache')) = 1
               /\ Len(cache') = maxsize]_vars

C13_Witness ==
  /\ cacheOp.op = "put"
  /\ cacheOp.evicted # None
  /\ cacheOp.size_before = maxsize
  /\ Len(cache) = maxsize

C15_GetFrame ==
  [][(CacheStep /\ cacheOp'.op = "get") =>
       /\ maxsize' = maxsize
       /\ IF cacheOp'.key \in Keys(cache)
            THEN /\ cacheOp'.returned = item(cache, cacheOp'.key)
                 /\ hits' = hits + 1
                 /\ misses' = misses
                 /\ Entries(cache') = Entries(cache)
                 /\ Others(cache', cacheOp'.key) = Others(cache, cacheOp'.key)
                 /\ cache'[Len(cache')].key = cacheOp'.key
            ELSE /\ cacheOp'.returned = None
                 /\ misses' = misses + 1
                 /\ hits' = hits
                 /\ cache' = cache]_vars

C15_Witness ==
  /\ cacheOp.op = "get"
  /\ cacheOp.returned = "v2"
  /\ hits = 1
  /\ misses = 1
  /\ Len(cache) = 2
  /\ cache[2].key = cacheOp.key

\* C16: a put on a stored key replaces its value and makes it the newest; it
\* evicts nothing and leaves the size and the other entries, in their order,
\* as they were.
C16_PutOnStoredKey ==
  [][(CacheStep /\ cacheOp'.op = "put" /\ cacheOp'.key \in Keys(cache)) =>
       /\ item(cache', cacheOp'.key) = cacheOp'.value
       /\ cache'[Len(cache')].key = cacheOp'.key
       /\ cacheOp'.evicted = None
       /\ Len(cache') = Len(cache)
       /\ Others(cache', cacheOp'.key) = Others(cache, cacheOp'.key)]_vars

C16_Witness ==
  /\ maxsize = 2
  /\ accessLog = <<[op |-> "put", key |-> "a"], [op |-> "put", key |-> "b"],
                   [op |-> "put", key |-> "a"]>>
  /\ cache = <<[key |-> "b", value |-> "v1"], [key |-> "a", value |-> "v2"]>>

PathExtension(path) ==
  LET slashes == {i \in 1..Len(path) : path[i] = "/"}
      start   == IF slashes = {} THEN 0 ELSE CHOOSE i \in slashes : \A j \in slashes : j <= i
      dots    == {i \in (start + 1)..Len(path) : path[i] = "."}
  IN  IF dots = {} THEN <<>>
      ELSE SubSeq(path, CHOOSE i \in dots : \A j \in dots : j <= i, Len(path))

StartsWith(str, prefix) ==
  Len(str) >= Len(prefix) /\ SubSeq(str, 1, Len(prefix)) = prefix

\* C18: is_cacheable returns true exactly when the extension of the path is
\* one of the listed extensions or the content type starts with image/, font/,
\* text/css or application/javascript (letter case aside).
C18_CacheableExactly ==
  (fnIn.fn = "is_cacheable" /\ fnOut.done) =>
    fnOut.value =
      (\/ PathExtension(lower(fnIn.path)) \in cacheable_extensions
       \/ \E ct \in cacheable_types : StartsWith(lower(fnIn.content_type), ct))

\* C19: two calls of generate_key with the same path and the same query give
\* the same key, and two calls with the same path and different queries give
\* different keys.
C19_KeyOfPathAndQuery ==
  (fnIn.fn = "generate_key" /\ fnOut.done /\ fnIn.path = fnIn.path2) =>
    ((fnOut.value = fnOut.value2) <=> (fnIn.query = fnIn.query2))

C19_Witness ==
  /\ fnIn.fn = "generate_key"
  /\ fnOut.done
  /\ fnIn.path = fnIn.path2
  /\ fnIn.query = <<>>
  /\ fnIn.query2 # <<>>
  /\ fnOut.value # fnOut.value2

\* ============================================ claims on the ContentRewriter

\* C20 as stated: rewriting what rewrite returned, with the same content type,
\* returns it unchanged.
C20_RewriteIdempotent ==
  (fnIn.fn = "rewrite" /\ fnOut.done) => fnOut.value2 = fnOut.value

\* ================================== claims on requests served side by side

\* Handler h passes the semaphore and turns to the backend or to its answer.
LeavesSem(h) == conc[h].pc = "sem" /\ conc'[h].pc # "sem"

C21_WebSocketAlwaysSecure ==
  (fnIn.fn = "rewrite" /\ fnOut.done
     /\ Contains(fnIn.content, <<"w", "s", ":", "/", "/">> \o upstream_host))
  => /\ Contains(fnOut.value, local_wss)
     /\ ~Contains(fnOut.value, <<"w", "s", ":", "/", "/">> \o local_host)

\* ========================================= claims on check_backend_health

\* C28 as stated: check_backend_health raises nothing and the status it
\* returns is healthy, degraded, unhealthy or unreachable, whatever the
\* backend answers.
C28_HealthStatusOneOfFour ==
  (fnIn.fn = "check_backend_health" /\ fnOut.done)
  => /\ ~fnOut.value.raised
     /\ fnOut.value.status \in {"healthy", "degraded", "unhealthy", "unreachable"}

\* ================================ claims on the memoization of rewrite

\* C22 as stated: when rewrite is called again with the content and content
\* type of a call whose result is in the cache, the call is answered from the
\* cache with that result.
C22_MemoizedOnInput ==
  (fnIn.fn = "rewrite_cached" /\ fnOut.calls = 2 /\ fnOut.arg = fnIn.content
     /\ \E i \in 1..Len(cache) :
          cache[i].key = rewrite_key(fnOut.first, fnIn.content_type))
  => (fnOut.from_cache /\ fnOut.value = fnOut.first)

\* ------------------------------------------------ the upstream call's outcomes
\* A step in which the upstream call of the request in hand ends with outcome o.
Replied(o) == hpc = "upstream" /\ hpc' = "done" /\ hresp'.outcome = o

\* C23: when the connection to the backend fails, the caller receives 502 with
\* a diagnostic body, the error counter goes up by one, and the proxy keeps
\* running.
C23_ConnectionFailureIs502 ==
  [][Replied("ClientConnectorError")
       => /\ hresp'.status = 502
          /\ hresp'.body = "Backend unavailable: details"
          /\ stats'.errors = stats.errors + 1
          /\ is_running' = is_running]_vars

\* C24: when the backend call times out, on the connect timeout or on the
\* total timeout, the caller receives 504 and never another status.
C24_TimeoutIs504 ==
  [][(Replied("ServerTimeoutError") \/ Replied("asyncio.TimeoutError"))
       => hresp'.status = 504]_vars

\* C25: when the backend answers 401 the caller receives 401, the one call
\* already made is the only one (the request is finished, not sent again), and
\* token, cookie jar and running flag are left as they were.
C25_Unauthorized ==
  [][Replied("401")
       => /\ hresp'.status = 401
          /\ hup.sent /\ hup' = hup
          /\ UNCHANGED <<current_token, cookie_jar, is_running>>]_vars
C25_Witness ==
  /\ hpc = "done" /\ hresp.status = 401 /\ "outcome" \in DOMAIN hresp
  /\ hresp.outcome = "401"
  /\ hup.sent /\ current_token # None /\ is_running

\* C26: whatever way the upstream call of a request ends, the handler returns
\* an HTTP response, is_running stays true and the semaphore permit is given
\* back, so that the next request is accepted and served.
C26_FailureNeverStopsProxy ==
  [][/\ (hpc = "upstream" /\ hpc' = "done")
          => /\ hresp'.status \in 200..599
             /\ is_running /\ is_running'
             /\ permits' = permits + 1
     /\ (hpc = "done" /\ hpc' = "idle") => (is_running' /\ permits' = SemaphoreLimit)]_vars
C26_Witness ==
  /\ stats.errors > 0
  /\ hpc = "done" /\ hresp.status = 200 /\ "outcome" \in DOMAIN hresp
  /\ hresp.outcome = "200"
  /\ is_running

\* C27: for an Upgrade: websocket request the engine opens a WebSocket to the
\* backend and pumps frames both ways until either side closes.
C27_UpgradeIsTunnelled ==
  (hup.sent /\ hup.upgrade = "websocket") => hup.kind = "session.ws_connect"

\* ------------------------------------------------- the token and the listener
\* C29: the token is stored before the listener accepts its first request and
\* purged only after the listener has stopped accepting: whenever port 61000
\* is served by one of the manager's threads, and a handler can therefore run
\* and read current_token, the token is set.
C29_NoHandlerReadsNullToken ==
  listener # 0 => current_token # None

\* C30: until the backend has validated the token of the start() in progress,
\* get_status() does not report running and the listener, through which
\* requests are forwarded, is not up.
C30_ReadyOnlyAfterHandshake ==
  (lastOp.op = "start" /\ pc \in {"start_wait", "start_auth"})
    => (~is_running /\ listener = 0)

\* ------------------------------------------------------ the semaphore ceiling
\* The backend calls in flight: the proxied calls, each holding a permit, and
\* the authenticate calls of the cookie bootstrap.
calls_in_flight ==
  (SemaphoreLimit - permits) + Cardinality({h \in Handlers : conc[h].pc = "auth_call"})

\* C31: at every moment the backend calls in flight, the authenticate calls of
\* the cookie bootstrap included, number at most the semaphore ceiling.
C31_CallsWithinCeiling ==
  calls_in_flight <= SemaphoreLimit

\* ------------------------------------------------------- the cookie bootstrap
\* The GET a client sends after the redirect: to the redirect's Location, with
\* the cookie the redirect set.
follow_up(req, resp) ==
  [req EXCEPT !.path = resp.location, !.cookie = resp.set_cookie.value,
              !.desktop_token = None, !.auth = None]

\* C32: the bootstrap happens once per session token: while the token is the
\* one the redirect carried, the GET of a client that follows the redirect is
\* not taken into the bootstrap again, and a root GET that carries the session
\* token goes to the semaphore to be forwarded.
C32_BootstrapOnce ==
  [][/\ (hpc = "auth_call" /\ hpc' = "done" /\ current_token = hreq.desktop_token)
          => /\ hresp'.set_cookie.name = "zenzefi_access_token"
             /\ bootstrap_applies(follow_up(hreq, hresp'))
             /\ ~needs_cookie_update(follow_up(hreq, hresp').cookie, current_token)
     /\ (hpc = "idle" /\ hpc' # "idle" /\ hreq'.method = "GET"
           /\ hreq'.path \in RootPaths /\ hreq'.cookie # None
           /\ hreq'.cookie = current_token)
          => hpc' = "sem"
     /\ (hpc = "sem" /\ hpc' # "sem") => (hpc' = "upstream" /\ hup'.sent)]_vars
\* The second request of a client is upstream after its first was redirected
\* (the redirect counts neither as a response nor as an error).
C32_Witness ==
  /\ hpc = "upstream" /\ hup.sent
  /\ hreq.method = "GET" /\ hreq.path = "/" /\ hreq.cookie = current_token
  /\ is_browser(hreq.ua)
  /\ stats.total_requests = 2 /\ stats.total_responses = 0 /\ stats.errors = 0

\* ---------------------------------------------------- start() and the port
\* A start() that passed its argument checks is called while port 61000 is
\* held by a process psutil can name and that is not the manager's own
\* listener.
StartOnForeignPort ==
  /\ StartCalled
  /\ ~StartRejects(lastOp'.url, lastOp'.tok)
  /\ listener = 0 /\ portHolder = "known"

\* C33: when the port is held by a process of another application, start()
\* terminates nothing and returns false with a port error that names the
\* process.
C33_ForeignPortIsReported ==
  [][StartOnForeignPort
       => /\ lastOp'.result = "false"
          /\ last_error_type' = "port"
          /\ portHolder' = portHolder]_vars

\* C39: start() reports every failure through its return value: no call ends
\* with an exception that reaches the caller.
C39_StartNeverRaises ==
  lastOp.op = "start" => lastOp.result # "raised"

\* ------------------------------------------------- Set-Cookie of the backend
\* C34: each Set-Cookie of the backend is issued again with the same name and
\* value, Secure false, and SameSite=Lax when the backend gave no SameSite; a
\* header that cannot be parsed is dropped.
C34_SetCookieReissued ==
  (fnIn.fn = "translate_cookie" /\ fnOut.done)
    => IF is_legal_key(fnIn.name)
         THEN /\ fnOut.value.issued
              /\ fnOut.value.name = fnIn.name
              /\ fnOut.value.value = fnIn.value
              /\ ~fnOut.value.secure
              /\ (~Contains(lower(fnIn.attrs), <<"s", "a", "m", "e", "s", "i", "t", "e">>)
                    => fnOut.value.samesite = <<"L", "a", "x">>)
         ELSE ~fnOut.value.issued

\* ------------------------------------------- the health check and the session
\* C35: for the backend the application is configured with and the same answer
\* of that backend, check_backend_health reports the same status whatever
\* state start() and stop() have left the manager in.
C35_HealthIndependentOfSession ==
  \A u \in URLs, a \in HealthAnswers :
    check_backend_health(backend_url, a).status = check_backend_health(u, a).status

\* ------------------------------------------------------ the counters
\* C36: the counters stay consistent on every handler path:
\* active_connections is never negative and, when no request is in flight,
\* it is 0 and total_requests = total_responses + errors.
C36_CountersConsistent ==
  /\ stats.active_connections >= 0
  /\ hpc = "idle" => /\ stats.active_connections = 0
                     /\ stats.total_requests = stats.total_responses + stats.errors

\* ------------------------------------------------------ a start() that fails
\* start() was called on a manager that was not running and has returned false.
StartReturnedFalse ==
  /\ lastOp.op = "start" /\ lastOp.result = "false"
  /\ ~lastOp.running
  /\ pc = "idle"

\* C37: a start() that returns false from a stopped manager leaves no
\* credential behind: token, backend URL and cookie jar are null afterwards.
C37_FailedStartLeavesNoCredential ==
  StartReturnedFalse
    => (current_token = None /\ backend_url = None /\ cookie_jar = None)

\* C38: once start() has returned false the manager stays not running until
\* the next start(): the server thread it launched does not bind the listener
\* and set is_running afterwards.
C38_FailedStartStaysStopped ==
  StartReturnedFalse => (~is_running /\ listener = 0)

\* ------------------------------------------- memoization against no cache
\* C40: memoization does not change results: in every cache state earlier
\* rewrite calls have produced, rewrite with a cache manager returns the string
\* rewrite without one returns for the same content and content type.
C40_MemoizationKeepsResults ==
  (fnIn.fn = "rewrite_cached" /\ fnOut.done)
    => fnOut.value = rewrite(fnOut.arg, fnIn.content_type)

====
